---- MODULE Spec2Model ----
(***************************************************************************)
(* A model of the MDT orchestrator (src/mdt_system/orchestrator.py): the   *)
(* phase state machine, the threaded fan-out/fan-in engine of the          *)
(* streaming entry point, the sequential discussion rounds, and the        *)
(* blocking entry point.                                                   *)
(*                                                                         *)
(* Abstractions.                                                           *)
(*  - The agent registry holds the coordinator and three of the five       *)
(*    specialists, in the registry's insertion order; an agent's display   *)
(*    name is identified with its registry key.                            *)
(*  - A response text is the set of its whitespace-separated words, which  *)
(*    is all the lexical round score reads; the empty set is the empty     *)
(*    string.  A coordinator narrative is a sequence of characters (for    *)
(*    the conflict matcher) or of words (for the score extraction),        *)
(*    written in ASCII transliteration.                                    *)
(*  - Scores are held in thousandths (750 is 0.75).                        *)
(*  - A worker is an opaque capability: a call returns a text or raises    *)
(*    out of the method the orchestrator called; a streamed call first     *)
(*    yields some fragments.  A coordinator call that does not raise is    *)
(*    scored by the coordinator's own functions.  A worker is a            *)
(*    deterministic stub: what it does for a given (worker, stage, round)  *)
(*    is chosen once and remembered in oracle.                             *)
(*  - A blocking task's outcome is decided when it is awaited.             *)
(*  - Of the progress notifications, the one that opens each step is kept. *)
(*  - Time is counted in capability calls: a call takes one unit, the     *)
(*    orchestrator's own steps take none.                                  *)
(*  - An opinion's timestamp is kept to the precision of the session it   *)
(*    was produced in.  What each call was passed is kept in given.        *)
(*  - SpecReuse follows one orchestrator through a second blocking call    *)
(*    and through reset_session; SpecGate applies the conflict gate to any *)
(*    coordinator result; SpecFair runs the two parallel phases under fair *)
(*    scheduling, with workers whose call may never end.                   *)
(***************************************************************************)
EXTENDS Integers, Sequences, FiniteSets, TLC

\* ------------------------------------------------------------------ bounds

\* fragments the workers of one phase (or one round) yield all together
MaxChunks == 2
\* worker or coordinator calls that raise, per behaviour
MaxFaults == 1
\* progress callbacks registered
MaxCallbacks == 2
\* calls of the entry point on one orchestrator
MaxSessions == 2

\* ------------------------------------------------ constants of the program

max_discussion_rounds == 3
\* consensus_threshold = 0.75, in thousandths
consensus_threshold == 750
\* the literal threshold of the streaming consensus evaluation, in thousandths
stream_threshold == 750
\* the score reported when a scoring step fails (0.5), in thousandths
default_score == 500

COORD == "coordinator"
\* self.agents.keys(), in insertion order
AgentKeys == <<"coordinator", "pulmonary", "imaging", "pathology">>
Agents == {AgentKeys[i] : i \in 1..Len(AgentKeys)}
\* the default specialist list of the blocking individual analysis
DefaultSpecialists == <<"pulmonary", "imaging", "pathology">>

\* expert_name_mapping: display name -> registry key
MappedNames == {"expert_pulmonary", "expert_imaging", "expert_pathology", "expert_coordinator"}
expert_name_mapping(n) ==
  CASE n = "expert_pulmonary" -> "pulmonary"
    [] n = "expert_imaging" -> "imaging"
    [] n = "expert_pathology" -> "pathology"
    [] n = "expert_coordinator" -> "coordinator"
    [] OTHER -> n

\* ---------------------------------------------------------------- helpers

RECURSIVE SeqFilterMap(_, _)
\* the list comprehension / loop that keeps the known names, mapped
SeqFilterMap(s, i) ==
  IF i > Len(s) THEN <<>>
  ELSE LET n == s[i] IN
       (IF n \in MappedNames THEN <<expert_name_mapping(n)>>
        ELSE IF n \in Agents THEN <<n>>
        ELSE <<>>) \o SeqFilterMap(s, i + 1)

\* conduct_mdt_session(_stream): the translation of selected_agents
MapSelected(raw) == SeqFilterMap(raw, 1)

RECURSIVE WithoutCoordinator(_)
WithoutCoordinator(s) ==
  IF s = <<>> THEN <<>>
  ELSE (IF Head(s) = COORD THEN <<>> ELSE <<Head(s)>>) \o WithoutCoordinator(Tail(s))

Range(s) == {s[i] : i \in 1..Len(s)}

\* a result dict as it is built by hand: its timestamp is given
Entry(a, text, r, err, at) ==
  [agent |-> a, response |-> text, round |-> r, error |-> err, timestamp |-> at]
NoOpinion == Entry("none", {}, 0, FALSE, 0)
EmptyMap == [w \in {} |-> NoOpinion]
\* d[k] = v on a dict
Put(d, k, v) == [x \in (DOMAIN d) \cup {k} |-> IF x = k THEN v ELSE d[x]]
Values(d) == {d[k] : k \in DOMAIN d}

Min(a, b) == IF a < b THEN a ELSE b
Max(a, b) == IF a > b THEN a ELSE b

\* ------------------------------------------------------------------ inputs

\* selected_agents as the caller passes it (<<>> stands for None or [])
Selections ==
  { <<>>,
    <<"expert_pulmonary", "imaging">>,
    <<"coordinator", "pathology", "unknown">> }

Modes == {"blocking", "stream"}

\* required_fields of parse_medical_case
required_fields == {"patient_id", "symptoms", "medical_history"}
\* parse_medical_case(case_data), for a case given by the fields it has
parse_medical_case(case) ==
  IF required_fields \subseteq case THEN "parsed" ELSE "ValueError"

\* the cases submitted: a complete one, and one without medical_history
Cases == {required_fields \cup {"imaging_results"}, {"patient_id", "symptoms"}}

\* the calls made: the streaming entry point is run with at most two specialists
\* selected (one thread each), the blocking one also with the default selection
Calls ==
  { c \in Modes \X Selections \X Cases : c[1] = "stream" => c[2] # <<>> }

\* the words of the texts the stub workers answer with
ConsensusWords == {"jianyi", "tuijian", "zhiliao", "zhenduan", "suifang"}
\* what a worker can answer in the two opening phases
OpeningTexts(w) == {{w} \cup ConsensusWords}
\* what a worker can answer in the sharing discussion
SharingTexts(w) == {{w, "gongxiang"} \cup ConsensusWords}
\* what a worker can answer in a discussion round
RoundTexts(w) == {{}, {w}}
\* the coordinator's final synthesis
FinalTexts == {{"final"}}

\* ------------------------------------------------------------------- state

VARIABLES
  mode,             \* which entry point the caller uses
  calls,            \* how many times the caller has called the entry point
  gate,             \* a coordinator result on its way through the conflict gate
  raw_selected,     \* the selected_agents argument
  case_data,        \* the case_data argument: the fields it has
  progress_callbacks, \* self.progress_callbacks
  selected,         \* selected_agents after the name mapping
  pc,               \* where the entry point's body stands
  current_phase,    \* self.current_phase
  current_round,    \* self.current_round
  agent_responses,  \* self.agent_responses
  session,          \* self.session_data, without "phases"
  phases,           \* self.session_data["phases"]
  tpc,              \* streaming: where each worker thread stands
  event_queue,      \* streaming: the phase's queue.Queue
  finished,         \* streaming: the fan-in loop's completion counter
  total,            \* streaming: len(threads)
  results,          \* the phase's result dict (streaming: written under results_lock)
  discussion_rounds,\* step 4: the local list of finished rounds
  round_results,    \* step 4: the current round's results dict
  round_num,        \* step 4: the loop variable
  turn,             \* step 4 and blocking loops: index of the worker whose turn it is
  out,              \* history: lifecycle events the consumer received, in order
  delivered,        \* history: agent events the consumer received in the current phase or round, per agent
  emitted,          \* history: agent events each worker put in the current phase, per agent
  chunks,           \* history: fragments yielded in the current phase or round
  oracle,           \* the stub workers: outcome per (worker, stage, round), once chosen
  now,              \* the clock datetime.now() reads, in capability calls completed
  given,            \* history: what each call (worker, stage, round) was passed
  reference,        \* what an earlier run with the same stubs left in session phases
  raised            \* history: the exception reached the caller

vars == <<mode, calls, gate, raw_selected, case_data, progress_callbacks, selected, pc, current_phase, current_round, agent_responses,
          session, phases, tpc, event_queue, finished, total, results, discussion_rounds,
          round_results, round_num, turn, out, delivered, emitted, chunks, oracle, now,
          given, reference, raised>>

orch == <<current_phase, current_round, agent_responses>>
engine == <<tpc, event_queue, finished, total, results>>
rounds == <<discussion_rounds, round_results, round_num, turn>>
inputs == <<mode, calls, gate, raw_selected, case_data, progress_callbacks, reference>>
stubs == <<oracle, now, given>>

\* ---------------------------------------------------------- the stub workers

Key(w, stage, r) == <<w, stage, r>>
Returned(text) == [raise |-> FALSE, text |-> text]
NumRaised == Cardinality({k \in DOMAIN oracle : oracle[k].raise})

\* what the call (w, stage, r) may do: what it did before, or else any of `texts`
\* or, while the fault budget lasts, an exception (blank: its empty text)
Outcomes(w, stage, r, texts, blank) ==
  IF Key(w, stage, r) \in DOMAIN oracle THEN {oracle[Key(w, stage, r)]}
  ELSE {Returned(t) : t \in texts}
       \cup (IF NumRaised < MaxFaults THEN {[raise |-> TRUE, text |-> blank]} ELSE {})

Remember(w, stage, r, o) == Put(oracle, Key(w, stage, r), o)

\* what a call is passed: the opinion list, and consensus_reached where it is a parameter
Input(opinions, has_reached, reached) ==
  [opinions |-> opinions, has_reached |-> has_reached, reached |-> reached]
Opinions(opinions) == Input(opinions, FALSE, FALSE)
NoInput == Opinions({})

\* the call (w, stage, r) is made with input and does o; a call takes time
Call(w, stage, r, o, input) ==
  /\ oracle' = Remember(w, stage, r, o)
  /\ now' = now + 1
  /\ given' = Put(given, Key(w, stage, r), input)

\* a clock that stands still once a session has read it
FrozenClock == session.start_time

\* datetime.now()
Now == now

\* ------------------------------------------------------------------ events

\* an agent event: agent_start, agent_chunk, agent_complete (internal_done in the queue only)
AgentEvent(type, phase, a, r, idx, result) ==
  [type |-> type, phase |-> phase, agent |-> a, round |-> r, idx |-> idx, result |-> result]
\* a lifecycle event: phase_start, phase_complete, phase_skip, round_start,
\* round_complete, rounds_complete, session_complete, session_error
Lifecycle(type, phase, r, flag, res) ==
  [type |-> type, phase |-> phase, round |-> r, flag |-> flag, results |-> res]

NoEvents == [a \in Agents |-> <<>>]
Deliver(d, e) == [d EXCEPT ![e.agent] = Append(@, e)]

\* ------------------------------------------------------------- the phases

PhaseOrder == <<"initialization", "individual_analysis", "sharing_discussion",
                "conflict_detection", "multi_round_discussion", "consensus_evaluation",
                "final_coordination", "completed">>

NoAssessment == [present |-> FALSE, flag |-> FALSE, score |-> 0, threshold |-> 0, error |-> FALSE]
NoPhases ==
  [ individual_analysis    |-> [present |-> FALSE, results |-> EmptyMap],
    sharing_discussion     |-> [present |-> FALSE, results |-> EmptyMap],
    conflict_detection     |-> NoAssessment,
    multi_round_discussion |-> [present |-> FALSE, total_rounds |-> 0, rounds |-> <<>>],
    consensus_evaluation   |-> NoAssessment,
    final_coordination     |-> [present |-> FALSE, result |-> NoOpinion] ]

NoSession ==
  [ created |-> FALSE, participants |-> <<>>, status |-> "none", start_time |-> 0,
    ended |-> FALSE, end_time |-> 0,
    final_result |-> [present |-> FALSE, result |-> NoOpinion], save_calls |-> 0,
    saved |-> 0 ]

\* self.session_data = {...} at the start of an entry point
NewSession(sel, st) ==
  [ created |-> TRUE, participants |-> IF sel # <<>> THEN sel ELSE AgentKeys,
    status |-> st, start_time |-> Now, ended |-> FALSE, end_time |-> 0,
    final_result |-> [present |-> FALSE, result |-> NoOpinion], save_calls |-> 0,
    saved |-> 0 ]

\* an opinion: one worker's result dict; its timestamp is kept to the precision of
\* the session it falls in
Opinion(a, text, r, err) == Entry(a, text, r, err, session.start_time)

NoReference == [present |-> FALSE, completed |-> FALSE, phases |-> NoPhases]

\* Python's True, False and None (None also for a key that is absent)
Truth == {"true", "false", "none"}
\* a conflict result dict: the keys it has, and their values
Dict(keys, conflicts_detected, conflict_detected, response, consensus_score) ==
  [ keys |-> keys, conflicts_detected |-> conflicts_detected,
    conflict_detected |-> conflict_detected, response |-> response,
    consensus_score |-> consensus_score ]
NoDict == Dict({}, "none", "none", <<>>, "none")
NoGate == [stage |-> "none", result |-> NoDict, normalized |-> NoDict, decision |-> FALSE]

\* MDTOrchestrator.__init__ and the call not yet made
Constructed ==
  /\ \E c \in Calls : mode = c[1] /\ raw_selected = c[2] /\ case_data = c[3]
  /\ calls = 1
  /\ progress_callbacks = <<>>
  /\ selected = <<>>
  /\ pc = "idle"
  /\ current_phase = "initialization"
  /\ current_round = 0
  /\ agent_responses = <<>>
  /\ session = NoSession
  /\ phases = NoPhases
  /\ tpc = [a \in Agents |-> "none"]
  /\ event_queue = <<>>
  /\ finished = 0
  /\ total = 0
  /\ results = EmptyMap
  /\ discussion_rounds = <<>>
  /\ round_results = EmptyMap
  /\ round_num = 0
  /\ turn = 0
  /\ out = <<>>
  /\ delivered = NoEvents
  /\ emitted = NoEvents
  /\ chunks = 0
  /\ oracle = [k \in {} |-> Returned({})]
  /\ now = 0
  /\ given = [k \in {} |-> NoInput]
  /\ reference = NoReference
  /\ raised = FALSE

Init == Constructed /\ gate = NoGate

\* specialist_agents of the streaming steps
StreamSpecialists == WithoutCoordinator(IF selected # <<>> THEN selected ELSE AgentKeys)

\* ------------------------------------------------- the scoring functions

\* a narrative is the sequence of its characters
Contains(text, pat) ==
  \E i \in 0..(Len(text) - Len(pat)) : \A j \in 1..Len(pat) : text[i + j] = pat[j]

consensus_indicators ==
  { <<"mei", "you", "xian", "zhu", "chong", "tu">>,   \* no significant conflict
    <<"yi4", "jian4", "yi1", "zhi4">>,                \* opinions agree
    <<"guan", "dian", "tong", "yi1">>,
    <<"ji", "ben", "yi1", "zhi4">>,                   \* basically agree
    <<"wu", "ming", "xian", "fen", "qi">>,
    <<"da", "cheng", "gong", "shi">>,
    <<"yi4", "jian4", "xiang1", "fu">>,
    <<"kan", "fa", "xiang1", "jin">>,
    <<"gao", "du", "de", "yi1", "zhi4", "xing">>,
    <<"mei", "you", "chong", "tu">> }                 \* no conflict

conflict_indicators ==
  { <<"you", "xian", "zhu", "chong", "tu">>,          \* significant conflict
    <<"cun", "zai", "fen", "qi">>,                    \* disagreement exists
    <<"yi4", "jian4", "bu", "yi1", "zhi4">>,
    <<"you", "zheng", "yi3">>,
    <<"you", "mao", "dun">>,
    <<"xu", "yao", "jin4", "yi1", "bu4", "tao", "lun">>,
    <<"yi4", "jian4", "fen", "hua">>,
    <<"kan", "fa", "bu", "tong2">>,
    <<"guan", "dian", "xiang1", "zuo">>,
    <<"fa1", "xian4", "chong", "tu">> }

conflict_words ==
  { <<"chong", "tu">>, <<"fen", "qi">>, <<"bu", "tong2">>, <<"zheng", "yi3">>, <<"mao", "dun">> }

\* CoordinatorAgent._analyze_conflict_response
AnalyzeConflictResponse(response) ==
  IF \E ind \in consensus_indicators : Contains(response, ind) THEN FALSE
  ELSE IF \E ind \in conflict_indicators : Contains(response, ind) THEN TRUE
  ELSE Cardinality({w \in conflict_words : Contains(response, w)}) >= 2

\* "the experts' opinions basically agree, there is no conflict"
NarrativeAgree ==
  <<"ge", "zhuan", "jia", "yi4", "jian4", "ji", "ben", "yi1", "zhi4", "comma",
    "mei", "you", "chong", "tu">>
\* "the experts clearly disagree on the treatment plan"
NarrativeClearlyDisagree ==
  <<"zhuan", "jia", "zai", "zhi", "liao", "fang", "an", "shang", "cun", "zai",
    "ming", "xian", "fen", "qi">>
\* "the experts' opinions disagree"
NarrativeDisagree == <<"zhuan", "jia", "yi4", "jian4", "cun", "zai", "fen", "qi">>

\* what the coordinator can answer to the conflict prompt
ConflictNarratives == {NarrativeAgree, NarrativeClearlyDisagree, NarrativeDisagree}

\* what the coordinator can answer to the consensus prompt: an explicit score,
\* a qualitative phrase, or neither (a narrative is a sequence of words here)
ConsensusNarratives ==
  {<<"gongshipingfen", "1.0">>, <<"gongshipingfen", "0.5">>, <<"yanzhong", "fenqi">>}

\* the labels the score patterns look for, and the numbers read after them
score_labels == {"gongshipingfen", "zonghepingfen", "gongshichengdu", "fenshu"}
ScoreRead(numeral) ==
  CASE numeral = "1.0" -> 1000
    [] numeral = "0.5" -> 500
    [] OTHER -> -1

\* the qualitative phrases of _extract_consensus_score, strongest first
high_consensus == {<<"gaodu", "gongshi">>, <<"wanquan", "yizhi">>, <<"gaodu", "yizhi">>}
good_consensus == {<<"lianghao", "gongshi">>, <<"jiben", "yizhi">>, <<"jiaowei", "yizhi">>}
partial_consensus == {<<"bufen", "gongshi">>, <<"bufen", "yizhi">>, <<"youyiding", "gongshi">>}
slight_consensus == {<<"qingwei", "gongshi">>, <<"lueyou", "gongshi">>, <<"qingdu", "yizhi">>}
clear_divergence == {<<"xianzhu", "fenqi">>, <<"mingxian", "fenqi">>, <<"yanzhong", "fenqi">>}

AnyOf(phrases, response) == \E ph \in phrases : Contains(response, ph)

\* CoordinatorAgent._extract_consensus_score, in thousandths
ExtractConsensusScore(response) ==
  LET scored == {i \in 1..(Len(response) - 1) :
                   response[i] \in score_labels /\ ScoreRead(response[i + 1]) >= 0}
  IN IF scored # {}
       THEN ScoreRead(response[(CHOOSE i \in scored : \A j \in scored : j <= i) + 1])
     ELSE IF AnyOf(high_consensus, response) THEN 900
     ELSE IF AnyOf(good_consensus, response) THEN 800
     ELSE IF AnyOf(partial_consensus, response) THEN 600
     ELSE IF AnyOf(slight_consensus, response) THEN 400
     ELSE IF AnyOf(clear_divergence, response) THEN 200
     ELSE default_score

\* the ten consensus keywords and five conflict keywords of _calculate_consensus
calc_consensus_keywords ==
  {"jianyi", "tuijian", "zhiliao", "zhenduan", "shoushu", "hualiao", "fangliao",
   "guancha", "suifang", "jiancha"}
calc_conflict_keywords == {"butongyi", "fenqi", "zhengyi", "buqueding", "xuyaotaolun"}

\* CoordinatorAgent._calculate_consensus over the formatted opinions, in thousandths
CalculateConsensus(texts) ==
  LET words == UNION texts
      indicator_count == Cardinality(words \cap calc_consensus_keywords)
      base_score == Min((indicator_count * 1000) \div Cardinality(calc_consensus_keywords), 1000)
      conflict_count == Cardinality(words \cap calc_conflict_keywords)
  IN Max(0, Min(1000, base_score - conflict_count * 100))

\* the list's words that occur in at least half of the responses / all its words
LexicalScore(responses) ==
  LET n == Len(responses)
      all_words == UNION {responses[i] : i \in 1..n}
      count(word) == Cardinality({i \in 1..n : word \in responses[i]})
      common_words == Cardinality({word \in all_words : 2 * count(word) >= n})
  IN Min((common_words * 1000) \div Max(Cardinality(all_words), 1), 1000)

\* MDTOrchestrator._calculate_simple_consensus(responses), in thousandths
CalculateSimpleConsensus(responses) ==
  IF Len(responses) < 2 THEN 1000 ELSE LexicalScore(responses)

RECURSIVE ResponsesOf(_, _)
\* the responses of a results dict, in the order of the key list ks
ResponsesOf(d, ks) ==
  IF ks = <<>> THEN <<>>
  ELSE (IF Head(ks) \in DOMAIN d THEN <<d[Head(ks)].response>> ELSE <<>>)
       \o ResponsesOf(d, Tail(ks))

\* --------------------------------------------- the streaming entry point

Emit(e) == out' = Append(out, e)
Emit2(e1, e2) == out' = out \o <<e1, e2>>

\* conduct_mdt_session_stream, up to the first yield
StreamBegin ==
  /\ pc = "idle" /\ mode = "stream"
  /\ selected' = MapSelected(raw_selected)
  /\ session' = NewSession(selected', "in_progress")
  /\ phases' = NoPhases
  /\ Emit(Lifecycle("phase_start", "initialization", 0, FALSE, EmptyMap))
  /\ pc' = "s1"
  /\ UNCHANGED <<inputs, orch, engine, rounds, delivered, emitted, chunks, stubs, raised>>

\* threads = [Thread(target=worker, ...) for name in specialist_agents]; t.start()
SpawnThreads ==
  /\ tpc' = [a \in Agents |-> IF a \in Range(StreamSpecialists) THEN "new" ELSE "none"]
  /\ event_queue' = <<>>
  /\ finished' = 0
  /\ total' = Len(StreamSpecialists)
  /\ results' = EmptyMap
  /\ delivered' = NoEvents
  /\ emitted' = NoEvents
  /\ chunks' = 0

ParallelPhase ==
  CASE pc = "s1_run" -> "individual_analysis"
    [] pc = "s2_run" -> "sharing_discussion"
    [] OTHER -> "none"

\* phase_start(individual_analysis), then _step_1_individual_analysis_stream starts its threads
Step1StreamStart ==
  /\ pc = "s1"
  /\ Emit(Lifecycle("phase_start", "individual_analysis", 0, FALSE, EmptyMap))
  /\ SpawnThreads
  /\ pc' = "s1_run"
  /\ UNCHANGED <<inputs, selected, orch, session, phases, rounds, stubs, raised>>

\* phase_start(sharing_discussion), then _step_2_sharing_discussion_stream starts its threads
Step2StreamStart ==
  /\ pc = "s2"
  /\ Emit(Lifecycle("phase_start", "sharing_discussion", 0, FALSE, EmptyMap))
  /\ SpawnThreads
  /\ pc' = "s2_run"
  /\ UNCHANGED <<inputs, selected, orch, session, phases, rounds, stubs, raised>>

\* event_queue.put(e) by worker w
QueuePut(w, e) ==
  /\ event_queue' = Append(event_queue, e)
  /\ emitted' = IF e.type = "internal_done" THEN emitted ELSE [emitted EXCEPT ![w] = Append(@, e)]

NumChunksOf(w) == Cardinality({i \in 1..Len(emitted[w]) : emitted[w][i].type = "agent_chunk"})

\* worker: the agent_start put
WorkerStart(w) ==
  /\ ParallelPhase # "none" /\ tpc[w] = "new"
  /\ QueuePut(w, AgentEvent("agent_start", ParallelPhase, w, 0, 0, NoOpinion))
  /\ tpc' = [tpc EXCEPT ![w] = "running"]
  /\ UNCHANGED <<inputs, selected, pc, orch, session, phases, finished, total, results,
                 rounds, out, delivered, chunks, stubs, raised>>

\* worker: a chunk without is_complete
WorkerChunk(w) ==
  /\ ParallelPhase # "none" /\ tpc[w] = "running"
  /\ chunks < MaxChunks
  /\ QueuePut(w, AgentEvent("agent_chunk", ParallelPhase, w, 0, NumChunksOf(w) + 1, NoOpinion))
  /\ chunks' = chunks + 1
  /\ UNCHANGED <<inputs, selected, pc, orch, session, phases, tpc, finished, total, results,
                 rounds, out, delivered, stubs, raised>>

\* what a worker of the phase can answer
PhaseTexts(w) == IF pc = "s1_run" THEN OpeningTexts(w) ELSE SharingTexts(w)

\* what the phase's workers are passed: nothing in the individual analysis,
\* individual_results in the sharing discussion
PhaseInput ==
  IF pc = "s1_run" THEN {} ELSE Values(phases.individual_analysis.results)

\* worker: the chunk with is_complete: the result is stored and agent_complete is put
WorkerComplete(w) ==
  /\ ParallelPhase # "none" /\ tpc[w] = "running"
  /\ \E o \in Outcomes(w, ParallelPhase, 0, PhaseTexts(w), {}) :
       /\ ~o.raise
       /\ Call(w, ParallelPhase, 0, o, Opinions(PhaseInput))
       /\ LET standard_result == Opinion(w, o.text, 0, FALSE) IN
          /\ results' = Put(results, w, standard_result)
          /\ QueuePut(w, AgentEvent("agent_complete", ParallelPhase, w, 0, 0, standard_result))
  /\ tpc' = [tpc EXCEPT ![w] = "completed"]
  /\ UNCHANGED <<inputs, selected, pc, orch, session, phases, finished, total,
                 rounds, out, delivered, chunks, raised>>

\* worker: analyze_case raises; except logs, finally puts internal_done
WorkerRaise(w) ==
  /\ ParallelPhase # "none" /\ tpc[w] = "running"
  /\ \E o \in Outcomes(w, ParallelPhase, 0, PhaseTexts(w), {}) :
       /\ o.raise
       /\ Call(w, ParallelPhase, 0, o, Opinions(PhaseInput))
  /\ QueuePut(w, AgentEvent("internal_done", ParallelPhase, w, 0, 0, NoOpinion))
  /\ tpc' = [tpc EXCEPT ![w] = "done"]
  /\ UNCHANGED <<inputs, selected, pc, orch, session, phases, finished, total, results,
                 rounds, out, delivered, chunks, raised>>

\* worker: finally puts internal_done after the generator is exhausted
WorkerDone(w) ==
  /\ ParallelPhase # "none" /\ tpc[w] = "completed"
  /\ QueuePut(w, AgentEvent("internal_done", ParallelPhase, w, 0, 0, NoOpinion))
  /\ tpc' = [tpc EXCEPT ![w] = "done"]
  /\ UNCHANGED <<inputs, selected, pc, orch, session, phases, finished, total, results,
                 rounds, out, delivered, chunks, stubs, raised>>

\* a queue that hands out the newest event first
QueueGetNewest(q) == [event |-> q[Len(q)], rest |-> SubSeq(q, 1, Len(q) - 1)]

\* event_queue.get() on a queue.Queue: the oldest event, and what stays queued
QueueGet(q) == [event |-> Head(q), rest |-> Tail(q)]

\* a fan-in loop that stops one completion marker early
FanInStopsEarly == finished < total - 1

\* a fan-in loop that gives up on a worker that hangs
FanInSkipsHung == finished < total - Cardinality({w \in Agents : tpc[w] = "hung"})

\* while finished < total
FanInRunning == finished < total

\* the fan-in loop: one event_queue.get(), counted or yielded
FanInGet ==
  /\ ParallelPhase # "none" /\ FanInRunning
  /\ event_queue # <<>>
  /\ LET event == QueueGet(event_queue).event IN
       /\ event_queue' = QueueGet(event_queue).rest
       /\ IF event.type = "internal_done"
            THEN finished' = finished + 1 /\ delivered' = delivered
            ELSE finished' = finished /\ delivered' = Deliver(delivered, event)
  /\ UNCHANGED <<inputs, selected, pc, orch, session, phases, tpc, total, results,
                 rounds, out, emitted, chunks, stubs, raised>>

\* a session that runs the conflict detection before the sharing discussion
SharingAfterDetection == IF pc = "s1_run" THEN "s3" ELSE "s2"

\* conduct_mdt_session_stream: the step that follows a parallel phase
AfterParallelPhase == IF pc = "s1_run" THEN "s2" ELSE "s3"

\* after the loop: the merged results are stored and phase_complete is yielded
PhaseComplete ==
  /\ ParallelPhase # "none" /\ ~FanInRunning
  /\ phases' = IF pc = "s1_run"
                 THEN [phases EXCEPT !.individual_analysis = [present |-> TRUE, results |-> results]]
                 ELSE [phases EXCEPT !.sharing_discussion = [present |-> TRUE, results |-> results]]
  /\ Emit(Lifecycle("phase_complete", ParallelPhase, 0, FALSE, results))
  /\ pc' = AfterParallelPhase
  /\ UNCHANGED <<inputs, selected, orch, session, engine, rounds, delivered, emitted,
                 chunks, stubs, raised>>

\* the agent events a sequential phase yields go straight to the consumer
Yield(e) == delivered' = Deliver(delivered, e)
YieldFirst(e) == delivered' = Deliver(NoEvents, e)

Last(q) == q[Len(q)]

\* the opinions of the two opening phases: dict results that carry "agent"
OpeningOpinions ==
  Values(phases.individual_analysis.results) \cup Values(phases.sharing_discussion.results)

\* the opinions of the finished rounds of a round list
RoundOpinions(rs) == UNION {Values(rs[i].results) : i \in 1..Len(rs)}

\* coordinator._format_other_opinions keeps the opinions whose response is not blank
FormattedTexts(ops) == {o.response : o \in {x \in ops : x.response # {}}}

\* phase_start(conflict_detection), then _step_3_conflict_detection_stream up to agent_start
Step3StreamStart ==
  /\ pc = "s3"
  /\ Emit(Lifecycle("phase_start", "conflict_detection", 0, FALSE, EmptyMap))
  /\ YieldFirst(AgentEvent("agent_start", "conflict_detection", COORD, 0, 0, NoOpinion))
  /\ chunks' = 0
  /\ pc' = "s3_run"
  /\ UNCHANGED <<inputs, selected, orch, session, phases, engine, rounds, emitted, stubs, raised>>

SequentialPhase ==
  CASE pc = "s3_run" -> "conflict_detection"
    [] pc = "s4_call" -> "multi_round_discussion"
    [] pc = "s5_run" -> "consensus_evaluation"
    [] pc = "s6_run" -> "final_coordination"
    [] OTHER -> "none"

SequentialAgent ==
  IF pc = "s4_call" THEN StreamSpecialists[turn] ELSE COORD

\* a piece of the streamed answer, yielded as agent_chunk
SequentialChunk ==
  /\ SequentialPhase # "none"
  /\ chunks < MaxChunks
  /\ Yield(AgentEvent("agent_chunk", SequentialPhase, SequentialAgent,
                      IF pc = "s4_call" THEN round_num ELSE 0,
                      Len(delivered[SequentialAgent]), NoOpinion))
  /\ chunks' = chunks + 1
  /\ UNCHANGED <<inputs, selected, pc, orch, session, phases, engine, rounds, out, emitted,
                 stubs, raised>>

Assessment(flag, score, threshold, err) ==
  [present |-> TRUE, flag |-> flag, score |-> score, threshold |-> threshold, error |-> err]

\* _step_3_conflict_detection_stream: the narrative is complete and analysed
Step3StreamFinish ==
  /\ pc = "s3_run"
  /\ \E o \in Outcomes(COORD, "conflict_detection", 0, ConflictNarratives, <<>>) :
       /\ ~o.raise
       /\ Call(COORD, "conflict_detection", 0, o, Opinions(OpeningOpinions))
       /\ LET conflict_detected == AnalyzeConflictResponse(o.text)
              consensus_score == CalculateConsensus(FormattedTexts(OpeningOpinions))
          IN /\ phases' = [phases EXCEPT !.conflict_detection =
                             Assessment(conflict_detected, consensus_score, 0, FALSE)]
             /\ Emit(Lifecycle("phase_complete", "conflict_detection", 0, conflict_detected, EmptyMap))
  /\ Yield(AgentEvent("agent_complete", "conflict_detection", COORD, 0, 0, NoOpinion))
  /\ pc' = "s4"
  /\ UNCHANGED <<inputs, selected, orch, session, engine, rounds, emitted, chunks, raised>>

\* an except branch that reports no conflict
ErrorSkipsDiscussion == FALSE

\* "conflict_detected": True of the phase_complete the except branch yields
StreamErrorConflictDetected == TRUE

\* _step_3_conflict_detection_stream: the except branch
Step3StreamFail ==
  /\ pc = "s3_run"
  /\ \E o \in Outcomes(COORD, "conflict_detection", 0, ConflictNarratives, <<>>) :
       /\ o.raise
       /\ Call(COORD, "conflict_detection", 0, o, Opinions(OpeningOpinions))
  /\ phases' = [phases EXCEPT !.conflict_detection = Assessment(TRUE, 0, 0, TRUE)]
  /\ Yield(AgentEvent("agent_complete", "conflict_detection", COORD, 0, 0,
                      Opinion(COORD, {"error"}, 0, TRUE)))
  /\ Emit(Lifecycle("phase_complete", "conflict_detection", 0, StreamErrorConflictDetected,
                    EmptyMap))
  /\ pc' = "s4"
  /\ UNCHANGED <<inputs, selected, orch, session, engine, rounds, emitted, chunks, raised>>

\* a session that discusses whatever the detection said
AlwaysDiscuss == TRUE

\* conflict_detected as conduct_mdt_session_stream reads it off phase_complete
StreamConflictDetected ==
  LET e == Last(out) IN e.type = "phase_complete" /\ e.flag

\* if conflict_detected: phase_start(multi_round_discussion) and the round loop is entered
Step4StreamStart ==
  /\ pc = "s4"
  /\ StreamConflictDetected
  /\ Emit(Lifecycle("phase_start", "multi_round_discussion", 0, FALSE, EmptyMap))
  /\ discussion_rounds' = <<>>
  /\ round_num' = 1
  /\ pc' = IF 1 <= max_discussion_rounds THEN "s4_round" ELSE "s4_end"
  /\ UNCHANGED <<inputs, selected, orch, session, phases, engine, round_results, turn,
                 delivered, emitted, chunks, stubs, raised>>

\* else: phase_skip(multi_round_discussion)
Step4StreamSkip ==
  /\ pc = "s4"
  /\ ~StreamConflictDetected
  /\ Emit(Lifecycle("phase_skip", "multi_round_discussion", 0, FALSE, EmptyMap))
  /\ pc' = "s5"
  /\ UNCHANGED <<inputs, selected, orch, session, phases, engine, rounds, delivered, emitted,
                 chunks, stubs, raised>>

\* the head of the round loop: round_start
RoundStreamStart ==
  /\ pc = "s4_round"
  /\ Emit(Lifecycle("round_start", "multi_round_discussion", round_num, FALSE, EmptyMap))
  /\ round_results' = EmptyMap
  /\ turn' = 1
  /\ delivered' = NoEvents
  /\ chunks' = 0
  /\ pc' = "s4_turn"
  /\ UNCHANGED <<inputs, selected, orch, session, phases, engine, discussion_rounds, round_num,
                 emitted, stubs, raised>>

\* for agent_name in specialist_agents: agent_start, then the streamed call begins
RoundStreamAgentStart ==
  /\ pc = "s4_turn" /\ turn <= Len(StreamSpecialists)
  /\ Yield(AgentEvent("agent_start", "multi_round_discussion", StreamSpecialists[turn],
                      round_num, 0, NoOpinion))
  /\ pc' = "s4_call"
  /\ UNCHANGED <<inputs, selected, orch, session, phases, engine, rounds, out, emitted, chunks,
                 stubs, raised>>

\* all_previous_opinions: the two opening phases and the rounds finished so far
AllPreviousOpinions == OpeningOpinions \cup RoundOpinions(discussion_rounds)

\* the chunk with is_complete of the agent's round call
RoundStreamAgentComplete ==
  /\ pc = "s4_call"
  /\ LET w == StreamSpecialists[turn] IN
     \E o \in Outcomes(w, "multi_round_discussion", round_num, RoundTexts(w), {}) :
       /\ ~o.raise
       /\ Call(w, "multi_round_discussion", round_num, o, Opinions(AllPreviousOpinions))
       /\ LET standard_result == Opinion(w, o.text, round_num, FALSE) IN
          /\ round_results' = Put(round_results, w, standard_result)
          /\ Yield(AgentEvent("agent_complete", "multi_round_discussion", w, round_num, 0,
                              standard_result))
  /\ turn' = turn + 1
  /\ pc' = "s4_turn"
  /\ UNCHANGED <<inputs, selected, orch, session, phases, engine, discussion_rounds, round_num,
                 out, emitted, chunks, raised>>

\* the except branch of conduct_mdt_session_stream: session_error, then raise
SessionError ==
  /\ Emit(Lifecycle("session_error", "error", 0, FALSE, EmptyMap))
  /\ raised' = TRUE
  /\ pc' = "failed"

\* the agent's round call raises: nothing in the step catches it
RoundStreamAgentRaise ==
  /\ pc = "s4_call"
  /\ LET w == StreamSpecialists[turn] IN
     \E o \in Outcomes(w, "multi_round_discussion", round_num, RoundTexts(w), {}) :
       /\ o.raise
       /\ Call(w, "multi_round_discussion", round_num, o, Opinions(AllPreviousOpinions))
  /\ SessionError
  /\ UNCHANGED <<inputs, selected, orch, session, phases, engine, rounds, delivered, emitted,
                 chunks>>

\* if consensus_score >= self.consensus_threshold: ... break
RoundConsensusReached(score) == score >= consensus_threshold

\* a round loop that runs one round too many
OneRoundMore(r) == r <= max_discussion_rounds

\* for round_num in range(1, self.max_discussion_rounds + 1)
MoreRounds(r) == r < max_discussion_rounds

\* a round record numbered from zero
RoundDataFromZero(r, res, score) == [round |-> r - 1, results |-> res, consensus_score |-> score]

\* round_data: {"round": round_num, "results": round_results, "consensus_score": ...}
RoundData(r, res, score) == [round |-> r, results |-> res, consensus_score |-> score]

\* the end of a round: its score, round_complete, and the early stop
RoundStreamEnd ==
  /\ pc = "s4_turn" /\ turn > Len(StreamSpecialists)
  /\ LET consensus_score ==
           CalculateSimpleConsensus(ResponsesOf(round_results, StreamSpecialists))
         done == RoundData(round_num, round_results, consensus_score)
         complete == Lifecycle("round_complete", "multi_round_discussion", round_num,
                               RoundConsensusReached(consensus_score), EmptyMap)
     IN /\ discussion_rounds' = Append(discussion_rounds, done)
        /\ IF RoundConsensusReached(consensus_score)
             THEN /\ Emit2(complete, Lifecycle("rounds_complete", "multi_round_discussion",
                                                round_num, TRUE, EmptyMap))
                  /\ pc' = "s4_end"
                  /\ round_num' = round_num
             ELSE /\ Emit(complete)
                  /\ pc' = IF MoreRounds(round_num) THEN "s4_round" ELSE "s4_end"
                  /\ round_num' = IF MoreRounds(round_num) THEN round_num + 1 ELSE round_num
  /\ UNCHANGED <<inputs, selected, orch, session, phases, engine, round_results, turn,
                 delivered, emitted, chunks, stubs, raised>>

\* after the loop: the rounds are stored and phase_complete is yielded
Step4StreamEnd ==
  /\ pc = "s4_end"
  /\ phases' = [phases EXCEPT !.multi_round_discussion =
                  [present |-> TRUE, total_rounds |-> Len(discussion_rounds),
                   rounds |-> discussion_rounds]]
  /\ Emit(Lifecycle("phase_complete", "multi_round_discussion", 0, FALSE, EmptyMap))
  /\ pc' = "s5"
  /\ UNCHANGED <<inputs, selected, orch, session, engine, rounds, delivered, emitted, chunks,
                 stubs, raised>>

\* phase_start(consensus_evaluation), then _step_5_consensus_evaluation_stream up to agent_start
Step5StreamStart ==
  /\ pc = "s5"
  /\ Emit(Lifecycle("phase_start", "consensus_evaluation", 0, FALSE, EmptyMap))
  /\ YieldFirst(AgentEvent("agent_start", "consensus_evaluation", COORD, 0, 0, NoOpinion))
  /\ chunks' = 0
  /\ pc' = "s5_run"
  /\ UNCHANGED <<inputs, selected, orch, session, phases, engine, rounds, emitted, stubs, raised>>

\* all_opinions of _step_5_consensus_evaluation_stream: every phase's dict results
\* that carry "agent", the rounds of the discussion included
AllPhaseOpinions ==
  OpeningOpinions \cup RoundOpinions(phases.multi_round_discussion.rounds)

\* final_score = (llm_score + calculated_score) / 2
FinalScore(llm_score, calculated_score) == (llm_score + calculated_score) \div 2

\* _step_5_consensus_evaluation_stream: the narrative is complete and scored
Step5StreamFinish ==
  /\ pc = "s5_run"
  /\ \E o \in Outcomes(COORD, "consensus_evaluation", 0, ConsensusNarratives, <<>>) :
       /\ ~o.raise
       /\ Call(COORD, "consensus_evaluation", 0, o, Opinions(AllPhaseOpinions))
       /\ LET llm_score == ExtractConsensusScore(o.text)
              calculated_score == CalculateConsensus(FormattedTexts(AllPhaseOpinions))
              final_score == FinalScore(llm_score, calculated_score)
              consensus_reached == final_score >= stream_threshold
          IN /\ phases' = [phases EXCEPT !.consensus_evaluation =
                             Assessment(consensus_reached, final_score, stream_threshold, FALSE)]
             /\ Emit(Lifecycle("phase_complete", "consensus_evaluation", 0, consensus_reached,
                               EmptyMap))
  /\ Yield(AgentEvent("agent_complete", "consensus_evaluation", COORD, 0, 0, NoOpinion))
  /\ pc' = "s6"
  /\ UNCHANGED <<inputs, selected, orch, session, engine, rounds, emitted, chunks, raised>>

\* _step_5_consensus_evaluation_stream: the except branch
Step5StreamFail ==
  /\ pc = "s5_run"
  /\ \E o \in Outcomes(COORD, "consensus_evaluation", 0, ConsensusNarratives, <<>>) :
       /\ o.raise
       /\ Call(COORD, "consensus_evaluation", 0, o, Opinions(AllPhaseOpinions))
  /\ phases' = [phases EXCEPT !.consensus_evaluation =
                  Assessment(FALSE, default_score, stream_threshold, TRUE)]
  /\ Yield(AgentEvent("agent_complete", "consensus_evaluation", COORD, 0, 0,
                      Opinion(COORD, {"error"}, 0, TRUE)))
  /\ Emit(Lifecycle("phase_complete", "consensus_evaluation", 0, FALSE, EmptyMap))
  /\ pc' = "s6"
  /\ UNCHANGED <<inputs, selected, orch, session, engine, rounds, emitted, chunks, raised>>

\* phase_start(final_coordination), then _step_6_final_coordination_stream up to agent_start
Step6StreamStart ==
  /\ pc = "s6"
  /\ Emit(Lifecycle("phase_start", "final_coordination", 0, FALSE, EmptyMap))
  /\ YieldFirst(AgentEvent("agent_start", "final_coordination", COORD, 0, 0, NoOpinion))
  /\ chunks' = 0
  /\ pc' = "s6_run"
  /\ UNCHANGED <<inputs, selected, orch, session, phases, engine, rounds, emitted, stubs, raised>>

\* all_expert_opinions: the phases named in the list, none of which has "rounds"
AllExpertOpinions ==
  OpeningOpinions
  \cup (IF phases.final_coordination.present THEN {phases.final_coordination.result} ELSE {})

\* the chunk with is_complete of the coordinator's streamed synthesis
Step6StreamComplete ==
  /\ pc = "s6_run"
  /\ \E o \in Outcomes(COORD, "final_coordination", 0, FinalTexts, {}) :
       /\ ~o.raise
       /\ Call(COORD, "final_coordination", 0, o, Opinions(AllExpertOpinions))
       /\ LET standard_result == Opinion(COORD, o.text, 0, FALSE) IN
          /\ phases' = [phases EXCEPT !.final_coordination =
                          [present |-> TRUE, result |-> standard_result]]
          /\ session' = [session EXCEPT !.final_result =
                           [present |-> TRUE, result |-> standard_result]]
          /\ Yield(AgentEvent("agent_complete", "final_coordination", COORD, 0, 0,
                              standard_result))
  /\ Emit(Lifecycle("phase_complete", "final_coordination", 0, FALSE, EmptyMap))
  /\ pc' = "s7"
  /\ UNCHANGED <<inputs, selected, orch, engine, rounds, emitted, chunks, raised>>

\* the coordinator's streamed synthesis raises: nothing in the step catches it
Step6StreamRaise ==
  /\ pc = "s6_run"
  /\ \E o \in Outcomes(COORD, "final_coordination", 0, FinalTexts, {}) :
       /\ o.raise
       /\ Call(COORD, "final_coordination", 0, o, Opinions(AllExpertOpinions))
  /\ SessionError
  /\ UNCHANGED <<inputs, selected, orch, session, phases, engine, rounds, delivered, emitted,
                 chunks>>

\* save_mdt_session(session_data): the file is written, or the write raises
SaveOutcomes == Outcomes("persistence", "save", 0, {{}}, {})

\* the end of conduct_mdt_session_stream: end_time, status, save, session_complete
StreamFinish ==
  /\ pc = "s7"
  /\ \E o \in SaveOutcomes :
       /\ Call("persistence", "save", 0, o, NoInput)
       /\ IF o.raise
            THEN /\ session' = [session EXCEPT !.ended = TRUE, !.end_time = Now, !.save_calls = @ + 1,
                                               !.status = "completed"]
                 /\ SessionError
            ELSE /\ session' = [session EXCEPT !.ended = TRUE, !.end_time = Now, !.save_calls = @ + 1,
                                               !.status = "completed", !.saved = @ + 1]
                 /\ Emit(Lifecycle("session_complete", "completed", 0, FALSE, EmptyMap))
                 /\ raised' = FALSE
                 /\ pc' = "done"
  /\ UNCHANGED <<inputs, selected, orch, phases, engine, rounds, delivered, emitted, chunks>>

\* ---------------------------------------------- the blocking entry point

threads == <<tpc, event_queue, finished, total>>
history == <<delivered, emitted, chunks>>

\* the callbacks a caller may register: one that returns, one that raises
Callbacks == {"ui", "broken"}
CallbackRaises(callback) == callback = "broken"

\* add_progress_callback(callback), before the session is run
AddProgressCallback(callback) ==
  /\ pc = "idle" /\ mode = "blocking"
  /\ Len(progress_callbacks) < MaxCallbacks
  /\ callback \notin Range(progress_callbacks)
  /\ progress_callbacks' = Append(progress_callbacks, callback)
  /\ UNCHANGED <<mode, calls, gate, raw_selected, case_data, reference, selected, pc, orch,
                 session, phases, engine, rounds, out, delivered, emitted, chunks, stubs,
                 raised>>

\* callback(phase.value, message, data), as the history records it
Invocation(callback, phase) ==
  [type |-> "callback", phase |-> phase, round |-> 0, flag |-> CallbackRaises(callback),
   results |-> EmptyMap, callback |-> callback]

RECURSIVE InvokeUntilRaise(_, _)
\* a loop without the try: the first callback that raises ends it
InvokeUntilRaise(callbacks, phase) ==
  IF callbacks = <<>> THEN <<>>
  ELSE <<Invocation(Head(callbacks), phase)>>
       \o (IF CallbackRaises(Head(callbacks)) THEN <<>>
           ELSE InvokeUntilRaise(Tail(callbacks), phase))

RECURSIVE InvokeAll(_, _)
\* for callback in self.progress_callbacks: try: callback(...) except Exception: log
InvokeAll(callbacks, phase) ==
  IF callbacks = <<>> THEN <<>>
  ELSE <<Invocation(Head(callbacks), phase)>> \o InvokeAll(Tail(callbacks), phase)

\* self._notify_progress(phase, ...): the notification, and the callbacks it reaches
NotifyProgress(type, phase) ==
  <<Lifecycle(type, phase, 0, FALSE, EmptyMap)>> \o InvokeAll(progress_callbacks, phase)

Notify(phase) == out' = out \o NotifyProgress("progress", phase)

\* the except branch of conduct_mdt_session tells the callbacks of the error
NotifyError(phase, then) ==
  out' = out \o NotifyProgress("progress", phase) \o NotifyProgress("progress_error", then)

\* conduct_mdt_session with a case parse_medical_case refuses: the session record and
\* the first notification are already made when the ValueError is raised
BlockingReject ==
  /\ pc = "idle" /\ mode = "blocking"
  /\ parse_medical_case(case_data) = "ValueError"
  /\ selected' = MapSelected(raw_selected)
  /\ session' = NewSession(selected', "none")
  /\ phases' = NoPhases
  /\ current_round' = 0
  /\ NotifyError("initialization", "completed")
  /\ raised' = TRUE
  /\ pc' = "failed"
  /\ UNCHANGED <<inputs, current_phase, agent_responses, engine, rounds, history, stubs>>

\* conduct_mdt_session, up to the first step
BlockingBegin ==
  /\ pc = "idle" /\ mode = "blocking"
  /\ parse_medical_case(case_data) = "parsed"
  /\ selected' = MapSelected(raw_selected)
  /\ session' = NewSession(selected', "none")
  /\ phases' = NoPhases
  /\ current_round' = 0
  /\ Notify("initialization")
  /\ pc' = "b1"
  /\ UNCHANGED <<inputs, current_phase, agent_responses, engine, rounds, history, stubs, raised>>

\* active_agents of _step_1_individual_analysis that get a task
ActiveAgents == WithoutCoordinator(IF selected # <<>> THEN selected ELSE DefaultSpecialists)

\* the specialists the blocking sharing discussion and rounds iterate: self.agents.items()
RegistrySpecialists == WithoutCoordinator(AgentKeys)

\* _step_1_individual_analysis: the phase is entered and one task per active agent is created
Step1Begin ==
  /\ pc = "b1"
  /\ current_phase' = "individual_analysis"
  /\ Notify("individual_analysis")
  /\ results' = EmptyMap
  /\ turn' = 1
  /\ pc' = "b1_await"
  /\ UNCHANGED <<inputs, selected, current_round, agent_responses, session, phases, threads,
                 discussion_rounds, round_results, round_num, history, stubs, raised>>

\* result = await task: the result is kept and appended to agent_responses
Step1AwaitResult ==
  /\ pc = "b1_await" /\ turn <= Len(ActiveAgents)
  /\ LET w == ActiveAgents[turn] IN
     \E o \in Outcomes(w, "individual_analysis", 0, OpeningTexts(w), {}) :
       /\ ~o.raise
       /\ Call(w, "individual_analysis", 0, o, NoInput)
       /\ results' = Put(results, w, Opinion(w, o.text, 0, FALSE))
       /\ agent_responses' = Append(agent_responses, Opinion(w, o.text, 0, FALSE))
  /\ turn' = turn + 1
  /\ UNCHANGED <<inputs, selected, pc, current_phase, current_round, session, phases, threads,
                 discussion_rounds, round_results, round_num, out, history, raised>>

\* format_agent_response(agent_name, message): agent, response and timestamps, nothing else
format_agent_response(agent_name) == Opinion(agent_name, {"error"}, 0, FALSE)

\* await task raises: an error_result is kept for the agent, agent_responses is not touched
Step1AwaitError ==
  /\ pc = "b1_await" /\ turn <= Len(ActiveAgents)
  /\ LET w == ActiveAgents[turn] IN
     \E o \in Outcomes(w, "individual_analysis", 0, OpeningTexts(w), {}) :
       /\ o.raise
       /\ Call(w, "individual_analysis", 0, o, NoInput)
       /\ results' = Put(results, w, format_agent_response(w))
  /\ turn' = turn + 1
  /\ UNCHANGED <<inputs, selected, pc, orch, session, phases, threads,
                 discussion_rounds, round_results, round_num, out, history, raised>>

\* self.session_data["phases"]["individual_analysis"] = phase_results
Step1End ==
  /\ pc = "b1_await" /\ turn > Len(ActiveAgents)
  /\ phases' = [phases EXCEPT !.individual_analysis = [present |-> TRUE, results |-> results]]
  /\ pc' = "b2"
  /\ UNCHANGED <<inputs, selected, orch, session, engine, rounds, out, history, stubs, raised>>

\* _step_2_sharing_discussion: the phase is entered
Step2Begin ==
  /\ pc = "b2"
  /\ current_phase' = "sharing_discussion"
  /\ Notify("sharing_discussion")
  /\ results' = EmptyMap
  /\ turn' = 1
  /\ pc' = "b2_loop"
  /\ UNCHANGED <<inputs, selected, current_round, agent_responses, session, phases, threads,
                 discussion_rounds, round_results, round_num, history, stubs, raised>>

\* other_opinions = [resp for resp in self.agent_responses if resp.get("agent") != agent.name]
OtherOpinions(w) == SelectSeq(agent_responses, LAMBDA resp : resp.agent # w)

\* the first entry of self.agent_responses that is agent w's is replaced by result
ReplaceFirst(rs, w, result) ==
  LET hits == {i \in 1..Len(rs) : rs[i].agent = w} IN
  IF hits = {} THEN rs
  ELSE LET i == CHOOSE x \in hits : \A y \in hits : x <= y IN [rs EXCEPT ![i] = result]

\* the loop body of the sharing discussion when nobody else has an opinion: no call
Step2Skip ==
  /\ pc = "b2_loop" /\ turn <= Len(RegistrySpecialists)
  /\ OtherOpinions(RegistrySpecialists[turn]) = <<>>
  /\ turn' = turn + 1
  /\ UNCHANGED <<inputs, selected, pc, orch, session, phases, engine, discussion_rounds,
                 round_results, round_num, out, history, stubs, raised>>

\* the loop body of the sharing discussion: the agent's result is kept
Step2Result ==
  /\ pc = "b2_loop" /\ turn <= Len(RegistrySpecialists)
  /\ LET w == RegistrySpecialists[turn] IN
     /\ OtherOpinions(w) # <<>>
     /\ \E o \in Outcomes(w, "sharing_discussion", 0, SharingTexts(w), {}) :
          /\ ~o.raise
          /\ Call(w, "sharing_discussion", 0, o, Opinions(Range(OtherOpinions(w))))
          /\ results' = Put(results, w, Opinion(w, o.text, 0, FALSE))
          /\ agent_responses' = ReplaceFirst(agent_responses, w, Opinion(w, o.text, 0, FALSE))
  /\ turn' = turn + 1
  /\ UNCHANGED <<inputs, selected, pc, current_phase, current_round, session, phases, threads,
                 discussion_rounds, round_results, round_num, out, history, raised>>

\* the loop body of the sharing discussion: the call raises and is only logged
Step2Error ==
  /\ pc = "b2_loop" /\ turn <= Len(RegistrySpecialists)
  /\ LET w == RegistrySpecialists[turn] IN
     /\ OtherOpinions(w) # <<>>
     /\ \E o \in Outcomes(w, "sharing_discussion", 0, SharingTexts(w), {}) :
          /\ o.raise
          /\ Call(w, "sharing_discussion", 0, o, Opinions(Range(OtherOpinions(w))))
  /\ turn' = turn + 1
  /\ UNCHANGED <<inputs, selected, pc, orch, session, phases, engine, discussion_rounds,
                 round_results, round_num, out, history, raised>>

\* self.session_data["phases"]["sharing_discussion"] = phase_results
Step2End ==
  /\ pc = "b2_loop" /\ turn > Len(RegistrySpecialists)
  /\ phases' = [phases EXCEPT !.sharing_discussion = [present |-> TRUE, results |-> results]]
  /\ pc' = "b3"
  /\ UNCHANGED <<inputs, selected, orch, session, engine, rounds, out, history, stubs, raised>>

\* current_opinions: the entries of self.agent_responses with a response
CurrentOpinions == SelectSeq(agent_responses, LAMBDA resp : resp.response # {})

\* CoordinatorAgent.detect_conflicts as ConflictAnalyzer.detect normalises it
DetectConflicts(opinions, narrative) ==
  IF Len(opinions) < 2 THEN Assessment(FALSE, 1000, 0, FALSE)
  ELSE Assessment(AnalyzeConflictResponse(narrative),
                  CalculateConsensus(FormattedTexts(Range(opinions))), 0, FALSE)

\* _parse_conflict_result: the analyzer's result always carries the flag
ParseConflictResult(conflict_result) == conflict_result.flag

\* if conflict_detected: of conduct_mdt_session
BlockingConflictDetected(conflict_result) == ParseConflictResult(conflict_result)

\* _step_3_conflict_detection: the analyzer returns the coordinator's result
Step3Detect ==
  /\ pc = "b3"
  /\ current_phase' = "conflict_detection"
  /\ Notify("conflict_detection")
  /\ \E o \in Outcomes(COORD, "conflict_detection", 0, ConflictNarratives, <<>>) :
       /\ ~o.raise
       /\ Call(COORD, "conflict_detection", 0, o, Opinions(Range(CurrentOpinions)))
       /\ LET conflict_result == DetectConflicts(CurrentOpinions, o.text) IN
          /\ phases' = [phases EXCEPT !.conflict_detection = conflict_result]
          /\ pc' = IF BlockingConflictDetected(conflict_result) THEN "b4" ELSE "b5"
  /\ UNCHANGED <<inputs, selected, current_round, agent_responses, session, engine, rounds,
                 history, raised>>

\* _step_3_conflict_detection: the coordinator raises, ConflictAnalyzer.detect answers for it
Step3DetectError ==
  /\ pc = "b3"
  /\ current_phase' = "conflict_detection"
  /\ Notify("conflict_detection")
  /\ \E o \in Outcomes(COORD, "conflict_detection", 0, ConflictNarratives, <<>>) :
       /\ o.raise
       /\ Call(COORD, "conflict_detection", 0, o, Opinions(Range(CurrentOpinions)))
  /\ LET conflict_result == Assessment(TRUE, 0, 0, TRUE) IN
     /\ phases' = [phases EXCEPT !.conflict_detection = conflict_result]
     /\ pc' = IF BlockingConflictDetected(conflict_result) THEN "b4" ELSE "b5"
  /\ UNCHANGED <<inputs, selected, current_round, agent_responses, session, engine, rounds,
                 history, raised>>

\* _step_4_multi_round_discussion: the phase is entered, the round loop starts
Step4Begin ==
  /\ pc = "b4"
  /\ current_phase' = "multi_round_discussion"
  /\ Notify("multi_round_discussion")
  /\ discussion_rounds' = <<>>
  /\ round_num' = 1
  /\ pc' = IF 1 <= max_discussion_rounds THEN "b4_round" ELSE "b4_end"
  /\ UNCHANGED <<inputs, selected, current_round, agent_responses, session, phases, engine,
                 round_results, turn, history, stubs, raised>>

\* the head of the blocking round loop
RoundBegin ==
  /\ pc = "b4_round"
  /\ current_round' = round_num
  /\ round_results' = EmptyMap
  /\ turn' = 1
  /\ pc' = "b4_turn"
  /\ UNCHANGED <<inputs, selected, current_phase, agent_responses, session, phases, engine,
                 discussion_rounds, round_num, out, history, stubs, raised>>

\* all_opinions of the blocking round loop: the round's results of the other agents,
\* and for every earlier round_data the one value of it that is a dict, its "results",
\* read as if it were a result
RoundAllOpinions(w) ==
  {Entry(round_results[a].agent, round_results[a].response, round_num, FALSE,
         round_results[a].timestamp) : a \in (DOMAIN round_results) \ {w}}
  \cup {Entry("", {}, discussion_rounds[i].round, FALSE, 0) : i \in 1..Len(discussion_rounds)}

\* one agent's discuss_round call returns
RoundAgentResult ==
  /\ pc = "b4_turn" /\ turn <= Len(RegistrySpecialists)
  /\ LET w == RegistrySpecialists[turn] IN
     \E o \in Outcomes(w, "multi_round_discussion", round_num, RoundTexts(w), {}) :
       /\ ~o.raise
       /\ Call(w, "multi_round_discussion", round_num, o, Opinions(RoundAllOpinions(w)))
       /\ round_results' = Put(round_results, w, Opinion(w, o.text, round_num, FALSE))
  /\ turn' = turn + 1
  /\ UNCHANGED <<inputs, selected, pc, orch, session, phases, engine, discussion_rounds,
                 round_num, out, history, raised>>

\* one agent's discuss_round call raises and is only logged
RoundAgentError ==
  /\ pc = "b4_turn" /\ turn <= Len(RegistrySpecialists)
  /\ LET w == RegistrySpecialists[turn] IN
     \E o \in Outcomes(w, "multi_round_discussion", round_num, RoundTexts(w), {}) :
       /\ o.raise
       /\ Call(w, "multi_round_discussion", round_num, o, Opinions(RoundAllOpinions(w)))
  /\ turn' = turn + 1
  /\ UNCHANGED <<inputs, selected, pc, orch, session, phases, engine, discussion_rounds,
                 round_results, round_num, out, history, raised>>

\* MDTOrchestrator._evaluate_round_consensus(round_results), in thousandths
EvaluateRoundConsensus(rr, ks) ==
  IF DOMAIN rr = {} THEN 0
  ELSE LET responses == SelectSeq(ResponsesOf(rr, ks), LAMBDA t : t # {}) IN
       IF Len(responses) < 2 THEN 1000 ELSE LexicalScore(responses)

\* the end of a blocking round: round_data, its score, and the early stop
RoundEnd ==
  /\ pc = "b4_turn" /\ turn > Len(RegistrySpecialists)
  /\ LET round_consensus == EvaluateRoundConsensus(round_results, RegistrySpecialists)
         round_data == RoundData(round_num, round_results, round_consensus)
     IN /\ discussion_rounds' = Append(discussion_rounds, round_data)
        /\ IF RoundConsensusReached(round_consensus) \/ ~MoreRounds(round_num)
             THEN pc' = "b4_end" /\ round_num' = round_num
             ELSE pc' = "b4_round" /\ round_num' = round_num + 1
  /\ UNCHANGED <<inputs, selected, orch, session, phases, engine, round_results, turn, out,
                 history, stubs, raised>>

RECURSIVE ValuesInOrder(_, _)
\* list(d.values()) for a dict filled in the order of the key list ks
ValuesInOrder(d, ks) ==
  IF ks = <<>> THEN <<>>
  ELSE (IF Head(ks) \in DOMAIN d THEN <<d[Head(ks)]>> ELSE <<>>) \o ValuesInOrder(d, Tail(ks))

\* after the loop: the rounds are stored, agent_responses becomes the last round's results
Step4End ==
  /\ pc = "b4_end"
  /\ phases' = [phases EXCEPT !.multi_round_discussion =
                  [present |-> TRUE, total_rounds |-> Len(discussion_rounds),
                   rounds |-> discussion_rounds]]
  /\ agent_responses' =
       IF discussion_rounds # <<>>
         THEN ValuesInOrder(Last(discussion_rounds).results, RegistrySpecialists)
         ELSE agent_responses
  /\ pc' = "b5"
  /\ UNCHANGED <<inputs, selected, current_phase, current_round, session, engine, rounds, out,
                 history, stubs, raised>>

\* CoordinatorAgent.evaluate_consensus: the score of its result, in thousandths
EvaluateConsensus(opinions, narrative) ==
  IF Len(opinions) < 2 THEN 1000
  ELSE FinalScore(ExtractConsensusScore(narrative),
                  CalculateConsensus(FormattedTexts(Range(opinions))))

\* _step_5_consensus_evaluation: the coordinator's score is compared and stored
Step5Evaluate ==
  /\ pc = "b5"
  /\ current_phase' = "consensus_evaluation"
  /\ Notify("consensus_evaluation")
  /\ \E o \in Outcomes(COORD, "consensus_evaluation", 0, ConsensusNarratives, <<>>) :
       /\ ~o.raise
       /\ Call(COORD, "consensus_evaluation", 0, o, Opinions(Range(CurrentOpinions)))
       /\ LET consensus_score == EvaluateConsensus(CurrentOpinions, o.text)
              consensus_reached == consensus_score >= consensus_threshold
          IN phases' = [phases EXCEPT !.consensus_evaluation =
                          Assessment(consensus_reached, consensus_score, consensus_threshold,
                                     FALSE)]
  /\ pc' = "b6"
  /\ UNCHANGED <<inputs, selected, current_round, agent_responses, session, engine, rounds,
                 history, raised>>

\* _step_5_consensus_evaluation: the coordinator raises; the step logs and returns False
Step5EvaluateError ==
  /\ pc = "b5"
  /\ current_phase' = "consensus_evaluation"
  /\ Notify("consensus_evaluation")
  /\ \E o \in Outcomes(COORD, "consensus_evaluation", 0, ConsensusNarratives, <<>>) :
       /\ o.raise
       /\ Call(COORD, "consensus_evaluation", 0, o, Opinions(Range(CurrentOpinions)))
  /\ pc' = "b6"
  /\ UNCHANGED <<inputs, selected, current_round, agent_responses, session, phases, engine,
                 rounds, history, raised>>

\* all_phases of _step_6_final_coordination: the opinions in the phases it hands over
AllPhases == AllPhaseOpinions

\* consensus_reached as _step_5_consensus_evaluation returned it
ConsensusReachedReturned ==
  phases.consensus_evaluation.present /\ phases.consensus_evaluation.flag

\* _step_6_final_coordination: the coordinator's result is stored
Step6Coordinate ==
  /\ pc = "b6"
  /\ current_phase' = "final_coordination"
  /\ Notify("final_coordination")
  /\ \E o \in Outcomes(COORD, "final_coordination", 0, FinalTexts, {}) :
       /\ ~o.raise
       /\ Call(COORD, "final_coordination", 0, o,
               Input(AllPhases, TRUE, ConsensusReachedReturned))
       /\ LET coordination_result == Opinion(COORD, o.text, 0, FALSE) IN
          /\ phases' = [phases EXCEPT !.final_coordination =
                          [present |-> TRUE, result |-> coordination_result]]
          /\ session' = [session EXCEPT !.final_result =
                           [present |-> TRUE, result |-> coordination_result]]
  /\ pc' = "b7"
  /\ UNCHANGED <<inputs, selected, current_round, agent_responses, engine, rounds, history,
                 raised>>

\* _step_6_final_coordination: the coordinator raises; an error_result is stored
Step6CoordinateError ==
  /\ pc = "b6"
  /\ current_phase' = "final_coordination"
  /\ Notify("final_coordination")
  /\ \E o \in Outcomes(COORD, "final_coordination", 0, FinalTexts, {}) :
       /\ o.raise
       /\ Call(COORD, "final_coordination", 0, o,
               Input(AllPhases, TRUE, ConsensusReachedReturned))
  /\ LET error_result == format_agent_response(COORD) IN
     /\ phases' = [phases EXCEPT !.final_coordination =
                     [present |-> TRUE, result |-> error_result]]
     /\ session' = [session EXCEPT !.final_result = [present |-> TRUE, result |-> error_result]]
  /\ pc' = "b7"
  /\ UNCHANGED <<inputs, selected, current_round, agent_responses, engine, rounds, history,
                 raised>>

\* the end of conduct_mdt_session: COMPLETED, end_time, save, the last notification
BlockingFinish ==
  /\ pc = "b7"
  /\ current_phase' = "completed"
  /\ Notify("completed")
  /\ \E o \in SaveOutcomes :
       /\ Call("persistence", "save", 0, o, NoInput)
       /\ session' = [session EXCEPT !.ended = TRUE, !.end_time = Now, !.save_calls = @ + 1,
                                     !.saved = IF o.raise THEN @ ELSE @ + 1]
       /\ raised' = o.raise
       /\ pc' = IF o.raise THEN "failed" ELSE "done"
  /\ UNCHANGED <<inputs, selected, current_round, agent_responses, phases, engine, rounds,
                 history>>

BlockingNext ==
  \/ \E callback \in Callbacks : AddProgressCallback(callback)
  \/ BlockingReject
  \/ BlockingBegin
  \/ Step1Begin
  \/ Step1AwaitResult
  \/ Step1AwaitError
  \/ Step1End
  \/ Step2Begin
  \/ Step2Skip
  \/ Step2Result
  \/ Step2Error
  \/ Step2End
  \/ Step3Detect
  \/ Step3DetectError
  \/ Step4Begin
  \/ RoundBegin
  \/ RoundAgentResult
  \/ RoundAgentError
  \/ RoundEnd
  \/ Step4End
  \/ Step5Evaluate
  \/ Step5EvaluateError
  \/ Step6Coordinate
  \/ Step6CoordinateError
  \/ BlockingFinish

Worker(w) ==
  \/ WorkerStart(w)
  \/ WorkerChunk(w)
  \/ WorkerComplete(w)
  \/ WorkerRaise(w)
  \/ WorkerDone(w)

StreamNext ==
  \/ StreamBegin
  \/ Step1StreamStart
  \/ Step2StreamStart
  \/ \E w \in Agents : Worker(w)
  \/ FanInGet
  \/ PhaseComplete
  \/ Step3StreamStart
  \/ SequentialChunk
  \/ Step3StreamFinish
  \/ Step3StreamFail
  \/ Step4StreamStart
  \/ Step4StreamSkip
  \/ RoundStreamStart
  \/ RoundStreamAgentStart
  \/ RoundStreamAgentComplete
  \/ RoundStreamAgentRaise
  \/ RoundStreamEnd
  \/ Step4StreamEnd
  \/ Step5StreamStart
  \/ Step5StreamFinish
  \/ Step5StreamFail
  \/ Step6StreamStart
  \/ Step6StreamComplete
  \/ Step6StreamRaise
  \/ StreamFinish

Next == BlockingNext \/ StreamNext

Spec == Init /\ [][Next]_vars

\* ------------------------------------- the two entry points, side by side

\* the streaming run is over; a fresh MDTOrchestrator with the same stub workers is
\* given the same case and selection through conduct_mdt_session
Replay ==
  /\ mode = "stream" /\ pc \in {"done", "failed"}
  /\ ~reference.present
  /\ reference' = [present |-> TRUE, completed |-> pc = "done", phases |-> phases]
  /\ mode' = "blocking"
  /\ progress_callbacks' = <<>>
  /\ pc' = "idle"
  /\ selected' = <<>>
  /\ current_phase' = "initialization"
  /\ current_round' = 0
  /\ agent_responses' = <<>>
  /\ session' = NoSession
  /\ phases' = NoPhases
  /\ tpc' = [a \in Agents |-> "none"]
  /\ event_queue' = <<>>
  /\ finished' = 0
  /\ total' = 0
  /\ results' = EmptyMap
  /\ discussion_rounds' = <<>>
  /\ round_results' = EmptyMap
  /\ round_num' = 0
  /\ turn' = 0
  /\ out' = <<>>
  /\ delivered' = NoEvents
  /\ emitted' = NoEvents
  /\ chunks' = 0
  /\ raised' = FALSE
  /\ UNCHANGED <<calls, gate, raw_selected, case_data, stubs>>

InitTwo == Init /\ mode = "stream"

NextTwo == StreamNext \/ Replay \/ BlockingNext

SpecTwo == InitTwo /\ [][NextTwo]_vars

\* ------------------------------------- the conflict gate, on any result

\* "the experts' opinions", a narrative without any of the phrases
NarrativePlain == <<"zhuan", "jia", "yi4", "jian4">>
\* "contradiction and dispute", two conflict words and no phrase
NarrativeTwoWords == <<"mao", "dun", "he", "zheng", "yi3">>
GateNarratives == ConflictNarratives \cup {NarrativePlain, NarrativeTwoWords}

\* what a coordinator's detect_conflicts can return: each flag True, False or not set
CoordinatorResults ==
  { Dict({"response"} \cup (IF cs # "none" THEN {"conflicts_detected"} ELSE {})
                     \cup (IF c # "none" THEN {"conflict_detected"} ELSE {}),
         cs, c, narrative, "none") :
    cs \in Truth, c \in Truth, narrative \in GateNarratives }

\* Python's a or b
PyOr(a, b) == IF a = "true" THEN a ELSE b
\* Python's truth value of True, False and None
Truthy(v) == v = "true"

\* ConflictAnalyzer.detect: the normalized dict
Normalized(result) ==
  LET flag == PyOr(result.conflicts_detected, result.conflict_detected) IN
  Dict({"agent", "conflict_detected", "conflicts_detected", "response", "raw", "timestamp"},
       flag, flag, result.response, "none")

\* the keywords _parse_conflict_result looks for in the response
parse_keywords ==
  { <<"chong", "tu">>, <<"fen", "qi">>, <<"mao", "dun">>, <<"bu", "yi1", "zhi4">> }

\* MDTOrchestrator._parse_conflict_result
parse_conflict_result(conflict_result) ==
  IF "conflicts_detected" \in conflict_result.keys THEN conflict_result.conflicts_detected
  ELSE IF "conflict_detected" \in conflict_result.keys THEN conflict_result.conflict_detected
  ELSE IF \E kw \in parse_keywords : Contains(conflict_result.response, kw) THEN "true"
  ELSE IF conflict_result.consensus_score # "none"
    THEN (IF conflict_result.consensus_score < consensus_threshold THEN "true" ELSE "false")
  ELSE "false"

\* conflict_result = conflict_analyzer.detect(case_data, current_opinions)
GateDetect ==
  /\ gate.stage = "result"
  /\ gate' = [gate EXCEPT !.stage = "normalized", !.normalized = Normalized(gate.result)]
  /\ UNCHANGED <<mode, calls, raw_selected, case_data, progress_callbacks, reference, selected,
                 pc, orch, session, phases, engine, rounds, out, history, stubs, raised>>

\* conflicts_detected = self._parse_conflict_result(conflict_result); if conflict_detected:
GateParse ==
  /\ gate.stage = "normalized"
  /\ gate' = [gate EXCEPT !.stage = "parsed",
                          !.decision = Truthy(parse_conflict_result(gate.normalized))]
  /\ UNCHANGED <<mode, calls, raw_selected, case_data, progress_callbacks, reference, selected,
                 pc, orch, session, phases, engine, rounds, out, history, stubs, raised>>

\* the blocking conflict detection has the coordinator's result in hand
InitGate ==
  /\ Constructed
  /\ mode = "blocking" /\ raw_selected = <<>> /\ parse_medical_case(case_data) = "parsed"
  /\ \E result \in CoordinatorResults : gate = [NoGate EXCEPT !.stage = "result", !.result = result]

NextGate == GateDetect \/ GateParse

SpecGate == InitGate /\ [][NextGate]_vars

\* ------------------------------------- the parallel phases, scheduled fairly

\* worker: agent.analyze_case never yields its last chunk and never raises
WorkerHang(w) ==
  /\ ParallelPhase # "none" /\ tpc[w] = "running"
  /\ tpc' = [tpc EXCEPT ![w] = "hung"]
  /\ UNCHANGED <<inputs, selected, pc, orch, session, phases, event_queue, finished, total,
                 results, rounds, out, history, stubs, raised>>

InitFair == Init /\ mode = "stream"

\* the streaming session up to the end of its second parallel phase
NextFair ==
  \/ StreamBegin
  \/ Step1StreamStart
  \/ Step2StreamStart
  \/ \E w \in Agents : Worker(w)
  \/ \E w \in Agents : WorkerHang(w)
  \/ FanInGet
  \/ PhaseComplete

\* the threads are scheduled, and the consumer keeps asking the generator for events;
\* whether a call of a capability ends is up to the capability
Fairness ==
  /\ \A w \in Agents : WF_vars(Worker(w))
  /\ WF_vars(FanInGet)
  /\ WF_vars(PhaseComplete)

SpecFair == InitFair /\ [][NextFair]_vars /\ Fairness

\* ------------------------------------- one orchestrator, used more than once

\* a reset that also forgets the registered callbacks
ResetAll ==
  /\ current_phase' = "initialization"
  /\ session' = NoSession
  /\ phases' = NoPhases
  /\ agent_responses' = <<>>
  /\ current_round' = 0
  /\ progress_callbacks' = <<>>

\* the body of reset_session: four assignments, nothing else is touched
Reset ==
  /\ current_phase' = "initialization"
  /\ session' = NoSession
  /\ phases' = NoPhases
  /\ agent_responses' = <<>>
  /\ current_round' = 0
  /\ progress_callbacks' = progress_callbacks

\* reset_session(), called in whatever state the orchestrator is in; what the
\* orchestrator does after the reset is not followed
ResetSession ==
  /\ pc # "reset"
  /\ Reset
  /\ pc' = "reset"
  /\ UNCHANGED <<mode, calls, gate, raw_selected, case_data, reference, selected, engine,
                 rounds, out, history, stubs, raised>>

\* the caller calls conduct_mdt_session again on the same orchestrator, with the same
\* case and selection; the histories start anew with the call
BlockingAgain ==
  /\ mode = "blocking" /\ pc \in {"done", "failed"}
  /\ calls < MaxSessions
  /\ calls' = calls + 1
  /\ pc' = "idle"
  /\ out' = <<>>
  /\ given' = [k \in {} |-> NoInput]
  /\ raised' = FALSE
  /\ UNCHANGED <<mode, gate, raw_selected, case_data, progress_callbacks, reference,
                 selected, orch, session, phases, engine, rounds, history, oracle, now>>

InitReuse == Init /\ mode = "blocking"

NextReuse == BlockingNext \/ BlockingAgain \/ ResetSession

SpecReuse == InitReuse /\ [][NextReuse]_vars

\* ------------------------------------------------------------ observations

Count(q, type, phase) ==
  Cardinality({i \in 1..Len(q) : q[i].type = type /\ q[i].phase = phase})

HasType(q, type) == \E i \in 1..Len(q) : q[i].type = type

PhaseIndex(p) == CHOOSE i \in 1..Len(PhaseOrder) : PhaseOrder[i] = p

\* the phases entered so far: phase_start events (streaming), the notification that
\* opens each step (blocking)
EnteredPhases ==
  LET es == SelectSeq(out, LAMBDA e : e.type \in {"phase_start", "progress"})
  IN [i \in 1..Len(es) |-> es[i].phase]

\* q may come right after p in the fixed order
Follows(p, q) ==
  \/ PhaseIndex(q) = PhaseIndex(p) + 1
  \/ p = "conflict_detection" /\ q = "consensus_evaluation"

IsPrefix(a, b) == Len(a) <= Len(b) /\ \A i \in 1..Len(a) : a[i] = b[i]

WorkerRaised(w, stage, r) ==
  Key(w, stage, r) \in DOMAIN oracle /\ oracle[Key(w, stage, r)].raise

\* the workers called in a stage (and round)
Invoked(stage, r) == {w \in Agents : Key(w, stage, r) \in DOMAIN oracle}

SaveFailed == WorkerRaised("persistence", "save", 0)

\* the case lacks a required field
Malformed == ~(required_fields \subseteq case_data)

\* the parallel phase that has just completed
JustCompleted == IF pc = "s2" THEN "individual_analysis" ELSE "sharing_discussion"

\* ------------------------------------------------------------------ claims

\* C1: in a session that does not fail the phases are entered in the fixed order
\* initialization, individual_analysis, sharing_discussion, conflict_detection,
\* [multi_round_discussion], consensus_evaluation, final_coordination, completed, each
\* at most once: the streaming phase_start events come in this order and
\* session_complete comes last; the blocking current_phase walks this order and ends
\* at completed.
C1_PhaseOrder ==
  /\ \A i \in 1..Len(EnteredPhases) :
       IF i = 1 THEN EnteredPhases[i] = "initialization"
       ELSE Follows(EnteredPhases[i - 1], EnteredPhases[i])
  /\ \A i \in 1..Len(out) : out[i].type = "session_complete" => i = Len(out) /\ pc = "done"
  /\ (mode = "blocking" /\ out # <<>>) => current_phase = Last(EnteredPhases)
  /\ (mode = "stream" /\ pc = "done") =>
       Last(out).type = "session_complete" /\ Last(EnteredPhases) = "final_coordination"
  /\ (mode = "blocking" /\ pc = "done") => current_phase = "completed"

C1_Witness ==
  mode = "stream" /\ pc = "done" /\ Len(EnteredPhases) = Len(PhaseOrder) - 1

\* C2: the multi-round discussion runs exactly when the conflict detection said true:
\* blocking, step 4 runs iff step 3 returned true; streaming, phase_start and round
\* events of multi_round_discussion appear iff the conflict_detection phase_complete
\* carried true, and otherwise there is exactly one phase_skip and no round event.
C2_Gate ==
  LET starts == Count(out, "phase_start", "multi_round_discussion")
      skips == Count(out, "phase_skip", "multi_round_discussion")
      round_events == Cardinality({i \in 1..Len(out) :
                                     out[i].type \in {"round_start", "round_complete"}})
      detection == {i \in 1..Len(out) : /\ out[i].type = "phase_complete"
                                        /\ out[i].phase = "conflict_detection"}
      ran == "multi_round_discussion" \in Range(EnteredPhases)
      decided == phases.conflict_detection.present
  IN /\ mode = "stream" =>
          IF detection = {} THEN starts = 0 /\ skips = 0 /\ round_events = 0
          ELSE /\ Cardinality(detection) = 1
               /\ \A i \in detection :
                    IF out[i].flag
                      THEN /\ skips = 0
                           /\ pc # "s4" => starts = 1
                           /\ pc \notin {"s4", "s4_round"} => round_events >= 1
                      ELSE /\ starts = 0 /\ round_events = 0
                           /\ pc # "s4" => skips = 1
     /\ mode = "blocking" =>
          /\ ~decided => ~ran
          /\ pc = "b4" => phases.conflict_detection.flag
          /\ (decided /\ pc # "b4") => (ran <=> phases.conflict_detection.flag)

C2_Witness ==
  /\ mode = "stream" /\ pc = "done"
  /\ Count(out, "phase_skip", "multi_round_discussion") = 1

\* the stop condition as the claim words it
Stops(r, score) == score >= consensus_threshold \/ r = max_discussion_rounds

\* C3: in both modes there are never more than max_discussion_rounds rounds, and the
\* discussion stops after round r iff round r's score >= the threshold or r is the
\* last allowed round; a round that does not stop is followed by the next one.
C3_Rounds ==
  LET k == Len(discussion_rounds) IN
  /\ k <= max_discussion_rounds
  /\ \A i \in 1..(k - 1) : ~Stops(i, discussion_rounds[i].consensus_score)
  /\ pc \in {"s4_end", "b4_end"} =>
       k >= 1 /\ Stops(k, discussion_rounds[k].consensus_score)
  /\ pc \in {"s4_round", "s4_turn", "s4_call", "b4_round", "b4_turn"} =>
       round_num = k + 1 /\ round_num <= max_discussion_rounds
  /\ phases.multi_round_discussion.present =>
       /\ phases.multi_round_discussion.total_rounds = k
       /\ k >= 1 /\ Stops(k, discussion_rounds[k].consensus_score)

C3_Witness ==
  /\ mode = "blocking" /\ pc = "done"
  /\ Len(discussion_rounds) = 2
  /\ discussion_rounds[1].consensus_score < consensus_threshold
  /\ discussion_rounds[2].consensus_score >= consensus_threshold

\* one worker's events: agent_start, chunks, one terminal agent_complete, error-shaped
\* when the worker raised
Shaped(es, failed) ==
  /\ Len(es) >= 2
  /\ es[1].type = "agent_start"
  /\ es[Len(es)].type = "agent_complete"
  /\ \A i \in 2..(Len(es) - 1) : es[i].type = "agent_chunk"
  /\ failed => es[Len(es)].result.error

\* C4: in a streaming parallel phase the consumer receives from every worker exactly
\* one agent_start, then chunks, then exactly one terminal agent_complete, which is
\* error-shaped when the worker raised.
C4_WorkerEvents ==
  pc \in {"s2", "s3"} =>
    \A w \in Range(StreamSpecialists) :
      Shaped(delivered[w], WorkerRaised(w, JustCompleted, 0))

\* C5: in a streaming parallel phase, under every interleaving, each worker's events
\* reach the consumer in the order the worker put them.
C5_WorkerOrder ==
  (ParallelPhase # "none" \/ pc \in {"s2", "s3"}) =>
    \A w \in Agents : IsPrefix(delivered[w], emitted[w])

C5_Witness ==
  /\ ParallelPhase # "none"
  /\ event_queue # <<>>
  /\ \E w1, w2 \in Agents :
       w1 # w2 /\ Len(delivered[w1]) >= 2 /\ Len(delivered[w2]) >= 2

\* C6: a streaming parallel phase emits exactly one phase_complete, only after every
\* agent event of every worker has been delivered (the counter has reached the number
\* of workers), and its results are the merged map of the workers' final opinions,
\* which is also what session phases holds for the phase.
C6_FanIn ==
  /\ \A ph \in {"individual_analysis", "sharing_discussion"} :
       /\ Count(out, "phase_complete", ph) <= 1
       /\ (mode = "stream" /\ phases[ph].present) => Count(out, "phase_complete", ph) = 1
  /\ pc \in {"s2", "s3"} =>
       LET completes(w) == {i \in 1..Len(delivered[w]) :
                              delivered[w][i].type = "agent_complete"}
       IN /\ Last(out) = Lifecycle("phase_complete", JustCompleted, 0, FALSE, results)
          /\ finished = total /\ total = Len(StreamSpecialists)
          /\ event_queue = <<>>
          /\ \A w \in Agents : delivered[w] = emitted[w]
          /\ DOMAIN results = {w \in Agents : completes(w) # {}}
          /\ \A w \in DOMAIN results :
               \A i \in completes(w) : delivered[w][i].result = results[w]
          /\ phases[JustCompleted] = [present |-> TRUE, results |-> results]

C6_Witness ==
  pc = "s3" /\ Cardinality(DOMAIN results) = 2 /\ chunks = MaxChunks

\* the phases that do work
WorkPhases == {PhaseOrder[i] : i \in 2..(Len(PhaseOrder) - 1)}

\* C7: in a streaming session every phase that was started and not skipped gets
\* exactly one phase_complete, and no event of a later phase, nor session_complete,
\* is emitted before it.
C7_Boundaries ==
  mode = "stream" =>
    /\ \A ph \in WorkPhases :
         /\ Count(out, "phase_start", ph) <= 1
         /\ Count(out, "phase_complete", ph) <= Count(out, "phase_start", ph)
    /\ \A j \in 1..Len(out) :
         (out[j].type = "phase_start" /\ out[j].phase \in WorkPhases) =>
           \A i \in (j + 1)..Len(out) :
             ( \/ out[i].type = "session_complete"
               \/ /\ out[i].phase \in WorkPhases
                  /\ PhaseIndex(out[i].phase) > PhaseIndex(out[j].phase) ) =>
               \E k \in (j + 1)..(i - 1) :
                 out[k].type = "phase_complete" /\ out[k].phase = out[j].phase
    /\ pc \in {"done", "failed"} =>
         \A ph \in WorkPhases :
           Count(out, "phase_start", ph) = 1 => Count(out, "phase_complete", ph) = 1

\* a phase's or round's result: one entry per worker called, an error-flagged opinion
\* with an error message for a worker that raised, the worker's opinion otherwise
Entries(res, stage, r) ==
  /\ DOMAIN res = Invoked(stage, r)
  /\ \A w \in DOMAIN res :
       IF WorkerRaised(w, stage, r)
         THEN res[w].error /\ res[w].response = {"error"}
         ELSE ~res[w].error /\ res[w].response = oracle[Key(w, stage, r)].text

\* C8: in every multi-worker phase or round, in both modes, when a worker raises the
\* phase still completes with one entry per participating worker, the raising
\* worker's being an error-flagged opinion with an error message; the siblings are not
\* aborted and the session goes on.
C8_ErrorOpinion ==
  /\ phases.individual_analysis.present =>
       Entries(phases.individual_analysis.results, "individual_analysis", 0)
  /\ phases.sharing_discussion.present =>
       Entries(phases.sharing_discussion.results, "sharing_discussion", 0)
  /\ \A i \in 1..Len(discussion_rounds) :
       Entries(discussion_rounds[i].results, "multi_round_discussion", i)
  /\ pc = "failed" => SaveFailed \/ Malformed

\* C9: only validation and persistence errors reach the caller: an exception of a
\* worker or of the coordinator inside a phase never makes conduct_mdt_session raise and
\* never makes conduct_mdt_session_stream emit session_error.
C9_ErrorsContained ==
  /\ raised => SaveFailed \/ Malformed
  /\ HasType(out, "session_error") => SaveFailed \/ Malformed

\* same phase names, same worker keys per phase and round, same opinion texts, same
\* conflict and consensus decisions, same number of rounds
SameResults(a, b) ==
  /\ DOMAIN a = DOMAIN b
  /\ \A w \in DOMAIN a \cap DOMAIN b : a[w].response = b[w].response

SameContent(a, b) ==
  /\ \A ph \in {"individual_analysis", "sharing_discussion"} :
       a[ph].present = b[ph].present /\ SameResults(a[ph].results, b[ph].results)
  /\ \A ph \in {"conflict_detection", "consensus_evaluation"} :
       a[ph].present = b[ph].present /\ a[ph].flag = b[ph].flag
  /\ a.multi_round_discussion.present = b.multi_round_discussion.present
  /\ a.multi_round_discussion.total_rounds = b.multi_round_discussion.total_rounds
  /\ \A i \in 1..Min(a.multi_round_discussion.total_rounds,
                     b.multi_round_discussion.total_rounds) :
       SameResults(a.multi_round_discussion.rounds[i].results,
                   b.multi_round_discussion.rounds[i].results)
  /\ a.final_coordination.present = b.final_coordination.present
  /\ a.final_coordination.result.response = b.final_coordination.result.response

\* C10: with the same case, the same selection and deterministic stub workers, the
\* blocking and the streaming entry point finish with the same session phases content.
C10_SamePhases ==
  (reference.present /\ reference.completed /\ pc = "done") =>
    SameContent(phases, reference.phases)

\* C11: whenever the conflict scoring step itself throws, in either mode, the gating
\* decision is conflict detected = true and the multi-round discussion runs: the recorded
\* flag is true, no phase_skip is emitted, and once the gate is passed the discussion
\* has been entered.
C11_FailureDiscusses ==
  WorkerRaised(COORD, "conflict_detection", 0) =>
    /\ phases.conflict_detection.present /\ phases.conflict_detection.flag
    /\ ~HasType(out, "phase_skip")
    /\ mode = "stream" =>
         /\ \E i \in 1..Len(out) : /\ out[i].type = "phase_complete"
                                    /\ out[i].phase = "conflict_detection"
                                    /\ out[i].flag
         /\ pc # "s4" => "multi_round_discussion" \in Range(EnteredPhases)
    /\ mode = "blocking" =>
         /\ pc # "b4" => "multi_round_discussion" \in Range(EnteredPhases)
    /\ pc \in {"s5", "b5", "done"} =>
         /\ phases.multi_round_discussion.present
         /\ phases.multi_round_discussion.total_rounds >= 1

C11_Witness ==
  /\ WorkerRaised(COORD, "conflict_detection", 0)
  /\ pc = "done"
  /\ phases.multi_round_discussion.total_rounds >= 1

\* C12: whenever final coordination starts, in either mode, session phases holds an
\* entry for conflict_detection and one for consensus_evaluation, each the assessment
\* or, when the scoring step raised, an error-shaped result.
C12_AssessmentsRecorded ==
  "final_coordination" \in Range(EnteredPhases) =>
    \A ph \in {"conflict_detection", "consensus_evaluation"} :
      /\ phases[ph].present
      /\ phases[ph].error <=> WorkerRaised(COORD, ph, 0)

\* C13: every session that finishes normally (conduct_mdt_session returns, or
\* conduct_mdt_session_stream emits session_complete) has end_time set, later than
\* start_time, and a final_result that is not null.
C13_FinishedSession ==
  (pc = "done" \/ HasType(out, "session_complete")) =>
    /\ session.created /\ session.ended
    /\ session.end_time > session.start_time
    /\ session.final_result.present
    /\ session.final_result.result = phases.final_coordination.result

C13_Witness ==
  /\ pc = "done" /\ mode = "blocking"
  /\ WorkerRaised(COORD, "final_coordination", 0)
  /\ session.final_result.present

\* C14: save is invoked exactly once per session, after final coordination and after
\* end_time is set; if it raises, the failure reaches the caller (conduct_mdt_session
\* raises, conduct_mdt_session_stream emits session_error and raises); session_complete
\* is emitted only after save returned, and no stream holds both session_complete and
\* session_error.
C14_SaveOnce ==
  /\ session.save_calls <= 1
  /\ session.save_calls = 1 =>
       session.ended /\ session.final_result.present /\ phases.final_coordination.present
  /\ (pc \in {"done", "failed"} /\ ~Malformed) => session.save_calls = 1
  /\ SaveFailed =>
       /\ raised /\ pc = "failed"
       /\ mode = "stream" => Last(out).type = "session_error"
  /\ HasType(out, "session_complete") => session.saved = 1 /\ ~SaveFailed
  /\ ~(HasType(out, "session_complete") /\ HasType(out, "session_error"))

\* C15: in both entry points a case that lacks a required field is rejected before the
\* state machine starts: no session record is created or replaced, no progress
\* notification and no stream event is issued, and no worker is invoked.
C15_FailFast ==
  Malformed =>
    /\ session = NoSession
    /\ out = <<>>
    /\ DOMAIN oracle = {}
    /\ pc \in {"idle", "failed"}

\* the notifications sent so far, as positions in the history
Notifications == {i \in 1..Len(out) : out[i].type \in {"progress", "progress_error"}}

\* C16: for every progress notification every registered callback is invoked exactly
\* once, in registration order, even if an earlier callback raises; a raising callback
\* never prevents the later ones and never aborts or alters the session's phases.
C16_CallbackIsolation ==
  LET n == Len(progress_callbacks) IN
  /\ \A i \in Notifications :
       /\ i + n <= Len(out)
       /\ \A j \in 1..n :
            /\ out[i + j].type = "callback"
            /\ out[i + j].callback = progress_callbacks[j]
            /\ out[i + j].phase = out[i].phase
       /\ (i + n < Len(out)) => out[i + n + 1].type # "callback"
  /\ Cardinality({i \in 1..Len(out) : out[i].type = "callback"})
       = n * Cardinality(Notifications)
  /\ (mode = "blocking" /\ raised) => SaveFailed \/ Malformed
  /\ (mode = "blocking" /\ pc \in {"done", "failed"} /\ ~Malformed) =>
       Last(EnteredPhases) = "completed"

C16_Witness ==
  /\ progress_callbacks = <<"broken", "ui">>
  /\ pc = "done"
  /\ Cardinality(Notifications) >= 7

\* the narrative the coordinator gave to the conflict prompt, once it has
DetectionNarrative == oracle[Key(COORD, "conflict_detection", 0)].text

\* C17: the conflict keyword matcher returns false for the narrative "the experts'
\* opinions basically agree, there is no conflict" and true for the narrative "the
\* experts clearly disagree on the treatment plan", observed where the streaming
\* conflict detection applies it to the coordinator's narrative.
C17_Matcher ==
  (/\ mode = "stream" /\ phases.conflict_detection.present
   /\ ~phases.conflict_detection.error) =>
    /\ phases.conflict_detection.flag = AnalyzeConflictResponse(DetectionNarrative)
    /\ DetectionNarrative = NarrativeAgree => ~phases.conflict_detection.flag
    /\ DetectionNarrative = NarrativeClearlyDisagree => phases.conflict_detection.flag

\* the responses of a round's result set that are not empty
NonEmptyResponses(res) == {w \in DOMAIN res : res[w].response # {}}

\* C18: the lexical round score used for the early stop is exactly 1.0 whenever fewer
\* than 2 of the round's responses are non-empty, in blocking and in streaming rounds.
C18_FewResponses ==
  \A i \in 1..Len(discussion_rounds) :
    Cardinality(NonEmptyResponses(discussion_rounds[i].results)) < 2 =>
      discussion_rounds[i].consensus_score = 1000

\* C19: in both modes the recorded list of discussion rounds has the round numbers
\* 1, 2, ..., k in order, without gaps or repeats, where k is the recorded total_rounds
\* and k <= max_discussion_rounds.
C19_RoundNumbers ==
  /\ \A i \in 1..Len(discussion_rounds) : discussion_rounds[i].round = i
  /\ phases.multi_round_discussion.present =>
       LET recorded == phases.multi_round_discussion.rounds
           k == phases.multi_round_discussion.total_rounds
       IN /\ Len(recorded) = k
          /\ k <= max_discussion_rounds
          /\ \A i \in 1..k : recorded[i].round = i
          /\ \A i \in 1..k : \A w \in DOMAIN recorded[i].results :
               recorded[i].results[w].round = i

C19_Witness ==
  /\ mode = "stream" /\ pc = "done"
  /\ phases.multi_round_discussion.total_rounds = max_discussion_rounds

\* the event types the consumer is promised
PromisedTypes ==
  {"phase_start", "agent_start", "agent_chunk", "agent_complete", "phase_complete",
   "phase_skip", "round_start", "round_complete", "session_complete", "session_error"}

\* C20: every event conduct_mdt_session_stream yields has one of the ten promised
\* types; bookkeeping markers such as internal_done never reach the consumer.
C20_ClosedTypes ==
  mode = "stream" =>
    /\ \A i \in 1..Len(out) : out[i].type \in PromisedTypes
    /\ \A w \in Agents : \A i \in 1..Len(delivered[w]) :
         delivered[w][i].type \in PromisedTypes

\* the input the coordinator's final coordination was given
FinalKey == Key(COORD, "final_coordination", 0)

\* C21: final coordination runs in every session, whether or not consensus was
\* reached, and in both modes its input holds the opinions of all earlier phases, every
\* completed discussion round included, together with the reached flag that the
\* consensus evaluation produced
C21_FinalInput ==
  /\ (pc \in {"done", "failed"} /\ ~Malformed) => FinalKey \in DOMAIN given
  /\ FinalKey \in DOMAIN given =>
       /\ AllPhaseOpinions \subseteq given[FinalKey].opinions
       /\ given[FinalKey].has_reached
       /\ given[FinalKey].reached = phases.consensus_evaluation.flag

\* C22: reset_session, called in any state, sets current_phase to INITIALIZATION,
\* empties session_data and agent_responses and sets current_round to 0, and leaves the
\* agent instances, the registered progress callbacks, max_discussion_rounds and
\* consensus_threshold as they were
C22_ResetFrame ==
  [][ResetSession =>
       /\ current_phase' = "initialization"
       /\ session' = NoSession /\ phases' = NoPhases
       /\ agent_responses' = <<>>
       /\ current_round' = 0
       /\ progress_callbacks' = progress_callbacks
       /\ UNCHANGED <<oracle, tpc>>]_vars

\* a session with registered callbacks and collected responses was reset in mid-flight
C22_Witness ==
  /\ pc = "reset"
  /\ progress_callbacks # <<>>
  /\ out # <<>>
  /\ agent_responses = <<>> /\ ~session.created /\ current_phase = "initialization"
  /\ \E k \in DOMAIN oracle : k[2] = "individual_analysis"

\* C29: sessions on one orchestrator are isolated: in every conduct_mdt_session call
\* made on it without a reset in between, the opinions given to the sharing
\* discussion, the conflict detection and the consensus evaluation were produced
\* during that same session
C29_SessionsIsolated ==
  session.created =>
    \A k \in DOMAIN given :
      k[2] \in {"sharing_discussion", "conflict_detection", "consensus_evaluation"} =>
        \A o \in given[k].opinions : o.timestamp = session.start_time

\* C23: every worker of the individual analysis is invoked with an empty list of prior
\* opinions, and every worker of the sharing discussion is invoked, in both modes, with
\* the individual-analysis opinions of all participating workers, its own included
C23_PhaseInputs ==
  \A k \in DOMAIN given :
    /\ k[2] = "individual_analysis" => given[k].opinions = {}
    /\ k[2] = "sharing_discussion" =>
         given[k].opinions = Values(phases.individual_analysis.results)

\* the opinion list ops holds agent a's opinion t of round r
Holds(ops, a, t, r) == \E o \in ops : o.agent = a /\ o.response = t /\ o.round = r

\* the order in which the rounds of the two entry points call the workers
RoundOrder == IF mode = "stream" THEN StreamSpecialists ELSE RegistrySpecialists

\* sibling a's call of round r had returned when w's call of that round was made
FinishedBefore(a, w, r) ==
  /\ Key(a, "multi_round_discussion", r) \in DOMAIN oracle
  /\ ~oracle[Key(a, "multi_round_discussion", r)].raise
  /\ \E i, j \in 1..Len(RoundOrder) : i < j /\ RoundOrder[i] = a /\ RoundOrder[j] = w

\* C24: in discussion round r, in both modes, the opinion list a worker is passed holds
\* every opinion of the individual analysis and the sharing discussion and every
\* worker opinion, agent and response intact, of the completed rounds 1..r-1, holds the
\* opinions of the same-round siblings that have already finished, and holds no opinion
\* of a same-round sibling that has not finished
C24_RoundInputs ==
  \A k \in DOMAIN given :
    k[2] = "multi_round_discussion" =>
      LET w == k[1]
          r == k[3]
          ops == given[k].opinions
      IN /\ OpeningOpinions \subseteq ops
         /\ \A i \in 1..Len(discussion_rounds) :
              discussion_rounds[i].round < r =>
                \A x \in Values(discussion_rounds[i].results) :
                  Holds(ops, x.agent, x.response, x.round)
         /\ \A a \in Agents \ {w} :
              FinishedBefore(a, w, r) =>
                Holds(ops, a, oracle[Key(a, "multi_round_discussion", r)].text, r)
         /\ \A o \in ops :
              (o.round = r /\ o.agent \in Agents \ {w}) => FinishedBefore(o.agent, w, r)

\* C25: in both modes the reached flag that is recorded in the consensus assessment and
\* passed to final coordination equals (final score >= consensus_threshold), the
\* threshold that also stops the discussion rounds early, and the recorded threshold is
\* that configured value; when the consensus evaluation fails the outcome is the score
\* 0.5 and reached = false
C25_ReachedFlag ==
  LET a == phases.consensus_evaluation IN
  /\ a.present =>
       /\ a.flag = (a.score >= consensus_threshold)
       /\ a.threshold = consensus_threshold
  /\ (FinalKey \in DOMAIN given /\ given[FinalKey].has_reached) =>
       given[FinalKey].reached = a.flag
  /\ WorkerRaised(COORD, "consensus_evaluation", 0) =>
       a.present /\ a.score = default_score /\ ~a.flag

\* the round calls that have been made and have not returned: the streaming loop is
\* inside one agent's generator, the blocking loop awaits each call where it makes it
RoundCallsInFlight == IF pc = "s4_call" THEN {StreamSpecialists[turn]} ELSE {}

\* the workers of the round in progress whose call has not been made yet
RoundCallsWaiting ==
  CASE pc = "s4_call" -> {StreamSpecialists[j] : j \in (turn + 1)..Len(StreamSpecialists)}
    [] pc = "s4_turn" -> {StreamSpecialists[j] : j \in turn..Len(StreamSpecialists)}
    [] pc = "b4_turn" -> {RegistrySpecialists[j] : j \in turn..Len(RegistrySpecialists)}
    [] OTHER -> {}

\* round r is recorded, with its score
RoundRecorded(r) == \E i \in 1..Len(discussion_rounds) : discussion_rounds[i].round = r

\* no call of a round is made before the round before it is recorded
RoundsSerial ==
  \A k \in DOMAIN oracle :
    (k[2] = "multi_round_discussion" /\ k[3] > 1) => RoundRecorded(k[3] - 1)

\* C26: the rounds of the multi-round discussion are strictly sequential (no call of
\* round r+1 is made before every call of round r has returned and round r is scored),
\* while within a round the calls of different workers are concurrent: a second
\* worker's call can start before the first worker's call has returned
C26_RoundsSerialWorkersParallel ==
  /\ RoundsSerial
  /\ (RoundCallsInFlight # {} /\ RoundCallsWaiting # {}) => ENABLED RoundStreamAgentStart

\* a worker of the parallel phase in progress never terminates
SomeHung == \E w \in Agents : tpc[w] = "hung"

\* C27: a streaming parallel phase emits phase_complete if and only if every worker's
\* analyze call terminates: under fair scheduling, when every worker thread terminates,
\* normally or by raising, the fan-in loop receives one completion marker per started
\* worker and phase_complete is eventually emitted; when some worker never terminates,
\* phase_complete is never emitted and the phase hangs
C27_PhaseTerminates ==
  /\ [](SomeHung => ParallelPhase # "none")
  /\ (ParallelPhase # "none") ~> (ParallelPhase = "none" \/ SomeHung)

\* the sharing discussion of two workers has completed although one of them raised
C27_Witness ==
  /\ pc = "s3" /\ total = 2 /\ finished = 2
  /\ \E w \in Agents : WorkerRaised(w, "sharing_discussion", 0)
  /\ Last(out).type = "phase_complete"

\* the values of the explicit conflict fields that a coordinator result sets
Explicit(result) == {result.conflicts_detected, result.conflict_detected} \ {"none"}

WorkerStages == {"individual_analysis", "sharing_discussion", "multi_round_discussion"}

\* the selected participants without the coordinator
SelectedWorkers == Range(session.participants) \ {COORD}

\* C30: in every worker phase of a session (individual analysis, sharing discussion,
\* every discussion round), in both modes, the workers invoked and the keys of the
\* phase's result are among the selected participants without the coordinator: a
\* specialist that was not selected is never invoked, and the coordinator is never a
\* worker of these phases
C30_OnlySelected ==
  session.created =>
    /\ \A k \in DOMAIN given : k[2] \in WorkerStages => k[1] \in SelectedWorkers
    /\ DOMAIN phases.individual_analysis.results \subseteq SelectedWorkers
    /\ DOMAIN phases.sharing_discussion.results \subseteq SelectedWorkers
    /\ \A i \in 1..Len(discussion_rounds) :
         DOMAIN discussion_rounds[i].results \subseteq SelectedWorkers

====
